---- MODULE Spec2Model ----
(***************************************************************************)
(* The record-CRUD operation factory (createCRUDOperations) together with  *)
(* its module-level idempotency cache, as a state machine.                 *)
(*                                                                         *)
(* One call of a generated operation occupies a call slot.  A call is cut  *)
(* at its awaits: the synchronous prefix (Start), the resolved context     *)
(* with the synchronous continuation up to the next await (Resolve), the   *)
(* pre-mutation select (Prefetch), the before hook (Before), the storage   *)
(* statement (Write / Query), the after hook (After) and the synchronous   *)
(* tail that revalidates, stores the idempotency entry and returns         *)
(* (Finish).                                                               *)
(***************************************************************************)
EXTENDS Integers, Sequences, FiniteSets, TLC

VARIABLES
    db,       \* the collection: a function from the ids of the stored rows to the rows
    projects, \* the collection of a second factory, made for the table 'projects'
    nextId,   \* the id the storage gives the next inserted row
    cache,    \* idempotencyCache: a function from the keys present to {result, timestamp}
    now,      \* Date.now()
    config,   \* the factory's resolved configuration (with the registered hook slots)
    nodeEnv,  \* process.env.NODE_ENV
    calls,    \* the call slots: each call's arguments, locals, position and outcome
    started,  \* the number of calls made so far
    optimistic \* a component's useOptimisticCRUD: its state and its execute calls

vars == <<db, projects, nextId, cache, now, config, nodeEnv, calls, started, optimistic>>

----------------------------------------------------------------------------
(* Bounds of the model *)

MaxRecords == 2     \* rows the collection ever receives
MaxCalls == 3       \* calls made in one behaviour
MaxIdemCalls == 2   \* calls made in one behaviour of SpecIdem
MaxConcCalls == 3   \* calls made in one behaviour of SpecConc
MaxMutCalls == 3    \* calls made in one behaviour of SpecMut
MaxCacheCalls == 2  \* calls made in one behaviour of SpecCache
MaxFactoryCalls == 3 \* calls made in one behaviour of SpecFactories
MaxSlack == 1       \* clock readings kept apart on each side of the TTL

(* Program constants *)

CACHE_TTL_MS == 5 * 60 * 1000
DEV_ID == "00000000-0000-0000-0000-000000000000"

MaxTime == CACHE_TTL_MS + MaxSlack

(* Domains of the inputs *)

Tenants == {"A", "B"}            \* identities the auth collaborator reports
NoUser == "none"                 \* the auth collaborator reports no identity
Users == Tenants \cup {NoUser}
Keys == {"k1", "k2"}             \* idempotency keys
NoKey == "undefined"             \* the call was given no idempotency key
Calls == {"c1", "c2"}            \* call slots
Ids == 1 .. MaxRecords
Null == "null"

HookNames == {"beforeCreate", "afterCreate", "beforeUpdate", "afterUpdate",
              "beforeDelete", "afterDelete", "beforeRead"}

(* The profiles table read by getProfileId: auth_user_id -> id.  Tenant B  *)
(* has no profile row.                                                     *)
Profiles == [u \in {"A"} |-> "pA"]

(* Name of the owner column: determineOwnerColumn with no override. *)
OwnerCol == "owner_id"

----------------------------------------------------------------------------
(* Idempotency cache *)

(* Mutant: the cleanup pass already removes an entry of age CACHE_TTL_MS. *)
cleanupExpiredCache_Eager(ch, t) ==
    [k \in {q \in DOMAIN ch : ~(t - ch[q].timestamp >= CACHE_TTL_MS)} |-> ch[k]]

(* Mutant: the cleanup pass stamps the entries it keeps with the reading. *)
cleanupExpiredCache_Touch(ch, t) ==
    [k \in {q \in DOMAIN ch : ~(t - ch[q].timestamp > CACHE_TTL_MS)} |->
        [result |-> ch[k].result, timestamp |-> t]]

cleanupExpiredCache(ch, t) ==
    [k \in {q \in DOMAIN ch : ~(t - ch[q].timestamp > CACHE_TTL_MS)} |-> ch[k]]

(* Mutant: an entry of age CACHE_TTL_MS already counts as expired. *)
getCachedResult_Strict(ch, key, t) ==
    LET cleaned == cleanupExpiredCache(ch, t)
    IN  IF key \in DOMAIN cleaned /\ t - cleaned[key].timestamp < CACHE_TTL_MS
        THEN <<cleaned[key].result>>
        ELSE <<>>

(* Mutant: an entry is served whatever its age. *)
getCachedResult_Ageless(ch, key, t) ==
    IF key \in DOMAIN ch THEN <<ch[key].result>> ELSE <<>>

(* The value getCachedResult returns, as a sequence: <<result>> or <<>> for null. *)
getCachedResult(ch, key, t) ==
    LET cleaned == cleanupExpiredCache(ch, t)
    IN  IF key \in DOMAIN cleaned /\ t - cleaned[key].timestamp <= CACHE_TTL_MS
        THEN <<cleaned[key].result>>
        ELSE <<>>

setCachedResult(ch, key, result, t) ==
    [k \in DOMAIN ch \cup {key} |->
        IF k = key THEN [result |-> result, timestamp |-> t] ELSE ch[k]]

(* Mutant: the cache is consulted and written whether or not a key came. *)
KeyGiven_Always(key) == TRUE

(* idempotencyKey is tested for truthiness: an absent key skips the cache. *)
KeyGiven(key) == key # NoKey

----------------------------------------------------------------------------
(* Tenant resolution *)

(* getContext: the owner id, or "" when it throws 'Not authenticated'. *)
getContext(user) ==
    IF user = NoUser
    THEN IF nodeEnv = "development" THEN DEV_ID ELSE ""
    ELSE user

(* getProfileId: the profile id, or "" when it throws 'Not authenticated'. *)
getProfileId(user) ==
    IF user = NoUser
    THEN IF nodeEnv = "development" THEN DEV_ID ELSE ""
    ELSE IF user \in DOMAIN Profiles THEN Profiles[user] ELSE user

(* finalOwnerId of every operation; "" when resolution throws. *)
FinalOwnerId(user) ==
    IF getContext(user) = "" THEN ""
    ELSE IF config.useProfileLookup THEN getProfileId(user)
    ELSE getContext(user)

----------------------------------------------------------------------------
(* Validation gate *)

(* Mutant: key.endsWith('id') *)
EndsWithId_NoUnderscore(key) ==
    /\ Len(key) >= 2
    /\ SubSeq(key, Len(key) - 1, Len(key)) = "id"

EndsWithId(key) ==
    /\ Len(key) >= 3
    /\ SubSeq(key, Len(key) - 2, Len(key)) = "_id"

(* Empty strings in fields named id or ending in _id become null. *)
Normalize(formData) ==
    [k \in DOMAIN formData |->
        IF (k = "id" \/ EndsWithId(k)) /\ formData[k] = ""
        THEN Null ELSE formData[k]]

(* Mutant: { [ownerIdColumn]: finalOwnerId, ...processedData } *)
InjectOwner_InputWins(processed, owner) ==
    [k \in DOMAIN processed \cup {OwnerCol} |->
        IF k \in DOMAIN processed THEN processed[k] ELSE owner]

(* { ...processedData, [ownerIdColumn]: finalOwnerId } *)
InjectOwner(processed, owner) ==
    [k \in DOMAIN processed \cup {OwnerCol} |->
        IF k = OwnerCol THEN owner ELSE processed[k]]

Restrict(f, ks) == [k \in DOMAIN f \cap ks |-> f[k]]

IsUuid(v) == v \in Tenants \cup {DEV_ID} \cup {Profiles[u] : u \in DOMAIN Profiles}

(* contactsInsertSchema: owner_id a uuid, name a non-empty string; z.object *)
(* strips the keys it does not declare.  <<>> stands for a ZodError.        *)
InsertSchemaAccepts(x) ==
    /\ "owner_id" \in DOMAIN x /\ IsUuid(x["owner_id"])
    /\ "name" \in DOMAIN x /\ x["name"] # "" /\ x["name"] # Null

InsertSchemaParse(x) == Restrict(x, {"owner_id", "name"})

(* Mutant: the update schema accepts every input. *)
UpdateSchemaAccepts_Any(x) == TRUE

(* contactsUpdateSchema: the insert schema, partial, without owner_id. *)
UpdateSchemaAccepts(x) ==
    "name" \in DOMAIN x => (x["name"] # "" /\ x["name"] # Null)

(* Mutant: the update schema lets every key of the input through. *)
UpdateSchemaParse_Passthrough(x) == x

UpdateSchemaParse(x) == Restrict(x, {"name"})

----------------------------------------------------------------------------
(* Storage collaborator: the collection named tableName *)

Columns == {"id", "owner_id", "name", "status", "archived_at"}

(* insert(validated).select().single(): the columns the payload leaves out *)
(* take the table's defaults (README: status DEFAULT 'active', archived_at  *)
(* nullable, id generated).                                                *)
InsertedRow(validated, id) ==
    [k \in Columns |->
        IF k = "id" THEN id
        ELSE IF k \in DOMAIN validated THEN validated[k]
        ELSE IF k = "status" THEN "active"
        ELSE Null]

(* Mutant: the update statement leaves the row as it was. *)
UpdatedRow_Keep(row, payload) == row

(* update(payload) on one row *)
UpdatedRow(row, payload) ==
    [k \in Columns |-> IF k \in DOMAIN payload /\ k # "id" THEN payload[k] ELSE row[k]]

(* Mutant: the statement is matched on the id alone. *)
Matching_IdOnly(table, id, owner) ==
    {i \in DOMAIN table : i = id}

(* The ids of the rows matching .eq('id', id).eq(ownerIdColumn, owner) *)
Matching(table, id, owner) ==
    {i \in DOMAIN table : i = id /\ table[i][OwnerCol] = owner}

(* Mutant: a select that matches no row comes back with a row of defaults. *)
SelectSingle_Phantom(table, id, owner) ==
    IF Matching(table, id, owner) = {} THEN <<InsertedRow(<<>>, id)>> ELSE <<table[id]>>

(* select(...).eq('id', id).eq(ownerIdColumn, owner).single(): <<row>>, or *)
(* <<>> when the storage reports that no row matched.                      *)
SelectSingle(table, id, owner) ==
    IF Matching(table, id, owner) = {} THEN <<>> ELSE <<table[id]>>

(* update(payload).eq('id', id).eq(ownerIdColumn, owner) *)
UpdateWhere(table, id, owner, payload) ==
    [i \in DOMAIN table |->
        IF i \in Matching(table, id, owner) THEN UpdatedRow(table[i], payload)
        ELSE table[i]]

(* delete().eq('id', id).eq(ownerIdColumn, owner) *)
DeleteWhere(table, id, owner) ==
    [i \in DOMAIN table \ Matching(table, id, owner) |-> table[i]]

(* new Date().toISOString() *)
IsoNow(t) == ToString(t)

(* Mutant: the soft delete stamps archived_at and leaves status alone. *)
ArchivePayload_NoStatus(t) == [archived_at |-> IsoNow(t)]

ArchivePayload(t) == [archived_at |-> IsoNow(t), status |-> "archived"]
(* Mutant: unarchive resets the status and keeps the stamp. *)
UnarchivePayload_KeepStamp == [status |-> "active"]

UnarchivePayload == [archived_at |-> Null, status |-> "active"]

----------------------------------------------------------------------------
(* Call slots *)

(* supabase.from(tableName): the collection a factory made for tableName   *)
(* works on.  Every factory but the second one is made for 'contacts'.     *)
From(tableName) == IF tableName = "projects" THEN projects ELSE db

IdleCall ==
    [pc |-> "idle", table |-> "contacts", op |-> "", user |-> NoUser, id |-> 0, data |-> <<>>,
     key |-> NoKey, opts |-> <<>>, owner |-> "", validated |-> <<>>, prev |-> <<>>,
     seen |-> "", cache0 |-> <<>>, matched |-> <<>>, raced |-> FALSE, out |-> "",
     res |-> <<>>, ev |-> <<>>]

Free(c) == calls[c].pc = "idle"

NewCall(op, user, id, data, key) ==
    [IdleCall EXCEPT !.pc = "resolve", !.op = op, !.user = user, !.id = id,
                     !.data = data, !.key = key, !.cache0 = cache]

(* The call returns (out = "ok") or throws (out names the error). *)
Settle(call, out, res, events) ==
    [call EXCEPT !.pc = "done", !.out = out, !.res = res, !.ev = call.ev \o events,
                 !.data = <<>>, !.validated = <<>>, !.prev = <<>>]

Registered(h) == h \in config.hooks

(* Creates that have not reached their insert yet: the collection is kept  *)
(* within MaxRecords rows.                                                 *)
PendingInserts ==
    Cardinality({c \in Calls : calls[c].op = "create"
                               /\ calls[c].pc \in {"resolve", "before", "write"}})

----------------------------------------------------------------------------
(* Inputs of the calls *)

CreateInputs ==
    { [name |-> "n1"], [name |-> ""], [name |-> "n1", owner_id |-> "B"] }

UpdateInputs ==
    { [name |-> "n2"], [name |-> ""], [name |-> "n2", owner_id |-> "B"],
      [name |-> "n2", status |-> "active"] }

(* QueryOptions; an absent limit or offset is 0 (the code tests both for   *)
(* truthiness), an absent sortBy or sortOrder is "".                       *)
NoOptions ==
    [filters |-> <<>>, sortBy |-> "", sortOrder |-> "", limit |-> 0, offset |-> 0]

GetAllInputs ==
    { NoOptions,
      [NoOptions EXCEPT !.filters = [status |-> "active"]],
      [NoOptions EXCEPT !.filters = [owner_id |-> "B"]],
      [NoOptions EXCEPT !.sortBy = "id", !.sortOrder = "asc", !.limit = 1, !.offset = 1] }

(* The operations object the factory assembles and returns. *)
Operations ==
    {"getAll", "getOne", "create", "update", "delete"}
        \cup (IF config.hasSoftDelete THEN {"archive", "unarchive"} ELSE {})

----------------------------------------------------------------------------
(* getAll's query *)

DefaultSort == [column |-> "created_at", ascending |-> FALSE]

(* The value a row is ordered by.  created_at is the insertion instant: the *)
(* storage numbers the rows in insertion order, and that number orders them. *)
SortKey(row, column) ==
    IF column = "name" THEN (IF row["name"] = "n1" THEN 1 ELSE 2) ELSE row["id"]

RECURSIVE SortIds(_, _, _, _)
SortIds(table, ids, column, ascending) ==
    IF ids = {} THEN <<>>
    ELSE LET first == CHOOSE i \in ids : \A j \in ids :
                        \/ i = j
                        \/ IF ascending
                           THEN SortKey(table[i], column) < SortKey(table[j], column)
                                \/ (SortKey(table[i], column) = SortKey(table[j], column) /\ i < j)
                           ELSE SortKey(table[i], column) > SortKey(table[j], column)
                                \/ (SortKey(table[i], column) = SortKey(table[j], column) /\ i < j)
         IN  <<table[first]>> \o SortIds(table, ids \ {first}, column, ascending)

(* Mutant: the range counts the rows from 1. *)
Range_FromOne(rows, from, to) ==
    SubSeq(rows, IF from < 1 THEN 1 ELSE from, IF to < Len(rows) THEN to ELSE Len(rows))

(* rows [from, to] of a result, counted from 0 *)
Range(rows, from, to) ==
    SubSeq(rows, from + 1, IF to + 1 < Len(rows) THEN to + 1 ELSE Len(rows))

(* Mutant: getAll's query without the owner condition. *)
QueryAll_Unscoped(table, owner, opts) ==
    LET scoped == {i \in DOMAIN table :
                      /\ (config.hasSoftDelete /\ ~config.includeArchived)
                            => table[i]["archived_at"] = Null
                      /\ \A f \in DOMAIN opts.filters : table[i][f] = opts.filters[f]}
        sortBy == IF opts.sortBy # "" THEN opts.sortBy ELSE DefaultSort.column
        ascending == (IF opts.sortOrder # "" THEN opts.sortOrder
                      ELSE IF DefaultSort.ascending THEN "asc" ELSE "desc") = "asc"
        sorted == SortIds(table, scoped, sortBy, ascending)
        limited == IF opts.limit # 0 THEN Range(sorted, 0, opts.limit - 1) ELSE sorted
    IN  IF opts.offset # 0 /\ opts.limit # 0
        THEN Range(sorted, opts.offset, opts.offset + opts.limit - 1)
        ELSE limited

(* Mutant: getAll's query without the archived_at condition. *)
QueryAll_WithArchived(table, owner, opts) ==
    LET scoped == {i \in DOMAIN table :
                      /\ table[i][OwnerCol] = owner
                      /\ \A f \in DOMAIN opts.filters : table[i][f] = opts.filters[f]}
        sortBy == IF opts.sortBy # "" THEN opts.sortBy ELSE DefaultSort.column
        ascending == (IF opts.sortOrder # "" THEN opts.sortOrder
                      ELSE IF DefaultSort.ascending THEN "asc" ELSE "desc") = "asc"
        sorted == SortIds(table, scoped, sortBy, ascending)
        limited == IF opts.limit # 0 THEN Range(sorted, 0, opts.limit - 1) ELSE sorted
    IN  IF opts.offset # 0 /\ opts.limit # 0
        THEN Range(sorted, opts.offset, opts.offset + opts.limit - 1)
        ELSE limited

QueryAll(table, owner, opts) ==
    LET scoped == {i \in DOMAIN table :
                      /\ table[i][OwnerCol] = owner
                      /\ (config.hasSoftDelete /\ ~config.includeArchived)
                            => table[i]["archived_at"] = Null
                      /\ \A f \in DOMAIN opts.filters : table[i][f] = opts.filters[f]}
        sortBy == IF opts.sortBy # "" THEN opts.sortBy ELSE DefaultSort.column
        ascending == (IF opts.sortOrder # "" THEN opts.sortOrder
                      ELSE IF DefaultSort.ascending THEN "asc" ELSE "desc") = "asc"
        sorted == SortIds(table, scoped, sortBy, ascending)
        limited == IF opts.limit # 0 THEN Range(sorted, 0, opts.limit - 1) ELSE sorted
    IN  IF opts.offset # 0 /\ opts.limit # 0
        THEN Range(sorted, opts.offset, opts.offset + opts.limit - 1)
        ELSE limited

----------------------------------------------------------------------------
(* The hook slot an operation tests before and after its storage statement *)

(* Mutant: unarchive awaits beforeDelete. *)
BeforeHook_Unarchive(op) ==
    CASE op = "create" -> "beforeCreate"
      [] op = "update" -> "beforeUpdate"
      [] op \in {"delete", "archive", "unarchive"} -> "beforeDelete"
      [] op = "getAll" -> "beforeRead"
      [] OTHER -> "none"

(* Mutant: archive has no before hook. *)
BeforeHook_DeleteOnly(op) ==
    CASE op = "create" -> "beforeCreate"
      [] op = "update" -> "beforeUpdate"
      [] op = "delete" -> "beforeDelete"
      [] op = "getAll" -> "beforeRead"
      [] OTHER -> "none"

BeforeHook(op) ==
    CASE op = "create" -> "beforeCreate"
      [] op = "update" -> "beforeUpdate"
      [] op \in {"delete", "archive"} -> "beforeDelete"
      [] op = "getAll" -> "beforeRead"
      [] OTHER -> "none"

AfterHook(op) ==
    CASE op = "create" -> "afterCreate"
      [] op = "update" -> "afterUpdate"
      [] op \in {"delete", "archive"} -> "afterDelete"
      [] OTHER -> "none"

(* Mutant: a mutation goes to its after hook in place of its statement. *)
StorageStep_HookFirst(op) == IF op \in {"getAll", "getOne"} THEN "query" ELSE "after"

StorageStep(op) == IF op \in {"getAll", "getOne"} THEN "query" ELSE "write"

(* Mutant: once the context is resolved the call goes to its statement     *)
(* without the before hook.                                                *)
AfterResolve_SkipBefore(op) ==
    IF op \in {"update", "delete", "archive"} /\ Registered(AfterHook(op)) THEN "prefetch"
    ELSE StorageStep(op)

(* Where a call continues once its context is resolved and its input validated *)
AfterResolve(op) ==
    IF op \in {"update", "delete", "archive"} /\ Registered(AfterHook(op)) THEN "prefetch"
    ELSE IF Registered(BeforeHook(op)) THEN "before"
    ELSE StorageStep(op)

AfterPrefetch(op) ==
    IF Registered(BeforeHook(op)) THEN "before" ELSE "write"

(* Mutant: a registered afterDelete is awaited whatever the select found. *)
AfterWrite_Always(op, prev) == IF Registered(AfterHook(op)) THEN "after" ELSE "finish"

(* Mutant: the after hook is never awaited. *)
AfterWrite_NoHook(op, prev) == "finish"

(* Where a call continues once its storage statement has succeeded *)
AfterWrite(op, prev) ==
    IF op \in {"create", "update"} /\ Registered(AfterHook(op)) THEN "after"
    ELSE IF op \in {"delete", "archive"} /\ Registered(AfterHook(op)) /\ prev # <<>> THEN "after"
    ELSE "finish"

----------------------------------------------------------------------------
(* The synchronous prefix of a call *)

(* What the cache holds for the key when the call is made (kept for the  *)
(* properties; the code does not read it)                                 *)
Seen(key) ==
    IF ~KeyGiven(key) THEN "nokey"
    ELSE IF key \notin DOMAIN cache THEN "absent"
    ELSE IF now - cache[key].timestamp > CACHE_TTL_MS THEN "expired"
    ELSE "fresh"

(* create and update: the idempotency check comes first *)
StartKeyed(c, tableName, op, user, id, data, key) ==
    /\ Free(c)
    /\ LET cached == IF KeyGiven(key) THEN getCachedResult(cache, key, now) ELSE <<>>
           call == [NewCall(op, user, id, data, key) EXCEPT !.seen = Seen(key),
                                                            !.table = tableName]
       IN  /\ cache' = IF KeyGiven(key) THEN cleanupExpiredCache(cache, now) ELSE cache
           /\ IF cached # <<>>
              THEN calls' = [calls EXCEPT ![c] = Settle(call, "ok", cached, <<"cacheHit">>)]
              ELSE /\ op = "create" => nextId + PendingInserts <= MaxRecords
                   /\ calls' = [calls EXCEPT ![c] = call]
    /\ UNCHANGED <<db, projects, nextId, now, config, nodeEnv, optimistic>>
    /\ started' = started + 1

StartCreate(c, user, data, key) == StartKeyed(c, "contacts", "create", user, 0, data, key)

StartUpdate(c, user, id, data, key) == StartKeyed(c, "contacts", "update", user, id, data, key)

(* getOne and delete await the context at once *)
StartByIdIn(c, tableName, op, user, id) ==
    /\ Free(c)
    /\ op \in {"getOne", "delete"}
    /\ calls' = [calls EXCEPT ![c] =
                    [NewCall(op, user, id, <<>>, NoKey) EXCEPT !.table = tableName]]
    /\ UNCHANGED <<db, projects, nextId, cache, now, config, nodeEnv, optimistic>>
    /\ started' = started + 1

StartById(c, op, user, id) == StartByIdIn(c, "contacts", op, user, id)

StartGetAll(c, user, opts) ==
    /\ Free(c)
    /\ calls' = [calls EXCEPT ![c] = [NewCall("getAll", user, 0, <<>>, NoKey) EXCEPT !.opts = opts]]
    /\ UNCHANGED <<db, projects, nextId, cache, now, config, nodeEnv, optimistic>>
    /\ started' = started + 1

(* archive and unarchive are members of the operations object only with    *)
(* soft delete; calling a missing member is a TypeError of the caller.     *)
StartArchival(c, op, user, id) ==
    /\ Free(c)
    /\ op \in {"archive", "unarchive"}
    /\ LET call == NewCall(op, user, id, <<>>, NoKey)
       IN  calls' = [calls EXCEPT ![c] =
                        IF op \notin Operations THEN Settle(call, "TypeError", <<>>, <<>>)
                        ELSE IF ~config.hasSoftDelete
                        THEN Settle(call, "UnsupportedOperation", <<>>, <<>>)
                        ELSE call]
    /\ UNCHANGED <<db, projects, nextId, cache, now, config, nodeEnv, optimistic>>
    /\ started' = started + 1

----------------------------------------------------------------------------
(* getContext (and getProfileId) resolve; create and update then normalise *)
(* and validate their input in the same synchronous stretch.               *)

(* What the schema's parse is handed: create spreads the processed data   *)
(* and sets the owner column, update hands over the processed data.        *)
SchemaInput(op, data, owner) ==
    IF op = "create" THEN InjectOwner(Normalize(data), owner) ELSE Normalize(data)

Validated(op, data, owner) ==
    IF op = "create"
    THEN LET payload == SchemaInput(op, data, owner)
         IN  IF InsertSchemaAccepts(payload) THEN <<InsertSchemaParse(payload)>> ELSE <<>>
    ELSE LET payload == SchemaInput(op, data, owner)
         IN  IF UpdateSchemaAccepts(payload) THEN <<UpdateSchemaParse(payload)>> ELSE <<>>

Resolve(c) ==
    /\ calls[c].pc = "resolve"
    /\ LET call == calls[c]
           owner == FinalOwnerId(call.user)
           parsed == Validated(call.op, call.data, owner)
       IN  calls' = [calls EXCEPT ![c] =
              IF owner = "" THEN Settle(call, "NotAuthenticated", <<>>, <<>>)
              ELSE IF call.op \in {"create", "update"} /\ parsed = <<>>
              THEN Settle([call EXCEPT !.owner = owner], "ValidationError", <<>>, <<"parse">>)
              ELSE IF call.op \in {"create", "update"}
              THEN [call EXCEPT !.owner = owner, !.validated = parsed[1],
                                !.ev = call.ev \o <<"parse">>, !.pc = AfterResolve(call.op)]
              ELSE [call EXCEPT !.owner = owner, !.pc = AfterResolve(call.op)]]
    /\ UNCHANGED <<db, projects, nextId, cache, now, config, nodeEnv, optimistic, started>>

(* Mutant: the pre-mutation select finds nothing. *)
PreviousData_Null(table, id, owner) == <<>>

(* Mutant: the pre-mutation select is scoped by id alone. *)
PreviousData_AnyOwner(table, id, owner) ==
    IF id \in DOMAIN table THEN <<table[id]>> ELSE <<>>

(* previousData / deletedData: select('*').eq('id', id).eq(ownerIdColumn,  *)
(* owner).single(), <<>> standing for null                                 *)
PreviousData(table, id, owner) == SelectSingle(table, id, owner)

(* The pre-mutation select of update and delete; its error is ignored. *)
Prefetch(c) ==
    /\ calls[c].pc = "prefetch"
    /\ LET call == calls[c]
       IN  calls' = [calls EXCEPT ![c] =
              [call EXCEPT !.prev = PreviousData(From(call.table), call.id, call.owner),
                           !.ev = call.ev \o <<"select">>,
                           !.pc = AfterPrefetch(call.op)]]
    /\ UNCHANGED <<db, projects, nextId, cache, now, config, nodeEnv, optimistic, started>>

(* The awaited before hook returns or throws. *)
Before(c) ==
    /\ calls[c].pc = "before"
    /\ LET call == calls[c]
           hook == BeforeHook(call.op)
       IN  \E returns \in BOOLEAN :
              calls' = [calls EXCEPT ![c] =
                 IF returns
                 THEN [call EXCEPT !.ev = call.ev \o <<hook>>, !.pc = StorageStep(call.op)]
                 ELSE Settle(call, "HookError", <<>>, <<hook>>)]
    /\ UNCHANGED <<db, projects, nextId, cache, now, config, nodeEnv, optimistic, started>>

----------------------------------------------------------------------------
(* The storage statement of a mutation.  The collaborator either executes  *)
(* it or reports an error of its own (failed = TRUE).                      *)

(* Call other has done its pre-mutation select and not yet its statement   *)
(* while call executes a statement on the same record (kept for the        *)
(* properties in the field raced).                                         *)
Overtaken(other, call) ==
    /\ other.pc \in {"before", "write"}
    /\ \E i \in DOMAIN other.ev : other.ev[i] = "select"
    /\ other.table = call.table
    /\ other.id = (IF call.op = "create" THEN nextId ELSE call.id)

(* Mutant: delete removes the row also with soft delete. *)
Written_Hard(call) ==
    CASE call.op = "create" ->
            [i \in DOMAIN From(call.table) \cup {nextId} |->
                IF i = nextId THEN InsertedRow(call.validated, nextId)
                ELSE From(call.table)[i]]
      [] call.op = "update" ->
            UpdateWhere(From(call.table), call.id, call.owner, call.validated)
      [] call.op = "delete" -> DeleteWhere(From(call.table), call.id, call.owner)
      [] call.op = "archive" ->
            UpdateWhere(From(call.table), call.id, call.owner, ArchivePayload(now))
      [] OTHER -> UpdateWhere(From(call.table), call.id, call.owner, UnarchivePayload)

(* The collection after the statement of call has executed *)
Written(call) ==
    CASE call.op = "create" ->
            [i \in DOMAIN From(call.table) \cup {nextId} |->
                IF i = nextId THEN InsertedRow(call.validated, nextId)
                ELSE From(call.table)[i]]
      [] call.op = "update" ->
            UpdateWhere(From(call.table), call.id, call.owner, call.validated)
      [] call.op \in {"delete", "archive"} ->
            IF config.hasSoftDelete
            THEN UpdateWhere(From(call.table), call.id, call.owner, ArchivePayload(now))
            ELSE DeleteWhere(From(call.table), call.id, call.owner)
      [] OTHER -> UpdateWhere(From(call.table), call.id, call.owner, UnarchivePayload)

(* What .select().single() hands back to create and update: <<row>>, or    *)
(* <<>> with an error when no row came back.                               *)
Returned(call) ==
    CASE call.op = "create" -> <<Written(call)[nextId]>>
      [] call.op = "update" -> SelectSingle(Written(call), call.id, call.owner)
      [] OTHER -> <<>>

Write(c) ==
    /\ calls[c].pc = "write"
    /\ LET call == calls[c]
           event == CASE call.op = "create" -> "insert"
                      [] call.op \in {"delete", "archive"} /\ ~config.hasSoftDelete -> "delete"
                      [] OTHER -> "update"
       IN  \E failed \in BOOLEAN :
              IF failed
              THEN /\ calls' = [calls EXCEPT ![c] = Settle(call, "StorageError", <<>>, <<event>>)]
                   /\ UNCHANGED <<db, projects, nextId>>
              ELSE IF call.op = "update"
                      /\ Matching(From(call.table), call.id, call.owner) = {}
              THEN /\ calls' = [calls EXCEPT ![c] = Settle(call, "NotFound", <<>>, <<event>>)]
                   /\ UNCHANGED <<db, projects, nextId>>
              ELSE /\ db' = IF call.table = "projects" THEN db ELSE Written(call)
                   /\ projects' = IF call.table = "projects" THEN Written(call) ELSE projects
                   /\ nextId' = IF call.op = "create" THEN nextId + 1 ELSE nextId
                   /\ calls' = [d \in Calls |->
                         IF d = c
                         THEN [call EXCEPT !.res = Returned(call),
                                           !.matched = IF call.op = "create" THEN <<>>
                                                       ELSE SelectSingle(From(call.table),
                                                                         call.id, call.owner),
                                           !.ev = call.ev \o <<event>>,
                                           !.pc = AfterWrite(call.op, call.prev)]
                         ELSE IF Overtaken(calls[d], call) THEN [calls[d] EXCEPT !.raced = TRUE]
                         ELSE calls[d]]
    /\ UNCHANGED <<cache, now, config, nodeEnv, optimistic, started>>

(* The awaited after hook returns or throws. *)
After(c) ==
    /\ calls[c].pc = "after"
    /\ LET call == calls[c]
           hook == AfterHook(call.op)
       IN  \E returns \in BOOLEAN :
              calls' = [calls EXCEPT ![c] =
                 IF returns
                 THEN [call EXCEPT !.ev = call.ev \o <<hook>>, !.pc = "finish"]
                 ELSE Settle(call, "HookError", <<>>, <<hook>>)]
    /\ UNCHANGED <<db, projects, nextId, cache, now, config, nodeEnv, optimistic, started>>

(* revalidateAllPaths: revalidatePath is called on the paths in order     *)
(* inside one try; the call on path number thrower throws (0: none does),  *)
(* which ends the loop and is swallowed.  The value is the sequence of the *)
(* paths revalidatePath was called on, closed by "revalidateThrew" if one  *)
(* call threw.                                                             *)
revalidateAllPaths(paths, thrower) ==
    IF thrower = 0 THEN paths
    ELSE SubSeq(paths, 1, thrower) \o <<"revalidateThrew">>

(* The synchronous tail: revalidation; create and update then store their  *)
(* result under the key and return it.                                     *)
Finish(c) ==
    /\ calls[c].pc = "finish"
    /\ LET call == calls[c]
           stores == call.op \in {"create", "update"} /\ KeyGiven(call.key)
       IN  \E thrower \in 0 .. Len(config.revalidatePaths) :
              /\ cache' = IF stores THEN setCachedResult(cache, call.key, call.res[1], now)
                          ELSE cache
              /\ calls' = [calls EXCEPT ![c] =
                    Settle(call, "ok", call.res,
                           revalidateAllPaths(config.revalidatePaths, thrower)
                              \o (IF stores THEN <<"cacheSet">> ELSE <<>>))]
    /\ UNCHANGED <<db, projects, nextId, now, config, nodeEnv, optimistic, started>>

(* The select of getOne and getAll *)
Query(c) ==
    /\ calls[c].pc = "query"
    /\ LET call == calls[c]
           row == SelectSingle(From(call.table), call.id, call.owner)
       IN  \E failed \in BOOLEAN :
              calls' = [calls EXCEPT ![c] =
                 IF failed THEN Settle(call, "StorageError", <<>>, <<"select">>)
                 ELSE IF call.op = "getAll"
                 THEN Settle(call, "ok", QueryAll(From(call.table), call.owner, call.opts),
                             <<"select">>)
                 ELSE IF row = <<>> THEN Settle(call, "NotFound", <<>>, <<"select">>)
                 ELSE Settle(call, "ok", row, <<"select">>)]
    /\ UNCHANGED <<db, projects, nextId, cache, now, config, nodeEnv, optimistic, started>>

(* The caller has taken the outcome: the slot is free for the next call. *)
Return(c) ==
    /\ calls[c].pc = "done"
    /\ calls' = [calls EXCEPT ![c] = IdleCall]
    /\ UNCHANGED <<db, projects, nextId, cache, now, config, nodeEnv, optimistic, started>>

(* Time passes: by a millisecond or by the TTL.  The readings stay within *)
(* MaxSlack milliseconds of 0 and of the TTL.                             *)
Tick(d) ==
    /\ now + d <= MaxTime
    /\ (now + d) % CACHE_TTL_MS <= MaxSlack
    /\ now' = now + d
    /\ UNCHANGED <<db, projects, nextId, cache, config, nodeEnv, optimistic, calls, started>>

----------------------------------------------------------------------------
(* Specifications *)

-----------------------------------------------------------------------------
(* useOptimisticCRUD: a component's hook around one async function *)

MaxExecutes == 3     \* execute calls made in one behaviour of SpecHook

Executions == {"e1", "e2"}

(* What the wrapped function resolves with *)
Results == {"r1", "r2"}

(* What the wrapped function throws: Error objects and a value that is not *)
(* an Error                                                                 *)
Thrown ==
    { [isError |-> TRUE, message |-> "boom"],
      [isError |-> TRUE, message |-> "denied"],
      [isError |-> FALSE, message |-> "text"] }

NoError == [isError |-> FALSE, message |-> Null]

AsError_Raw(err) == err

(* err instanceof Error ? err : new Error('An unknown error occurred') *)
AsError(err) ==
    IF err.isError THEN err ELSE [isError |-> TRUE, message |-> "An unknown error occurred"]

(* One execute call: its position, what the wrapped function settled with   *)
(* (fn), what execute returned or threw (value), and three ghosts: the      *)
(* hook's state when execute settled (seenPending, seenError), whether      *)
(* another execute call was in flight during this one (alone), and whether  *)
(* reset was called during this one (wasReset).                             *)
IdleExecution ==
    [pc |-> "idle", fn |-> Null, value |-> Null, seenPending |-> FALSE,
     seenError |-> NoError, alone |-> TRUE, wasReset |-> FALSE]

(* useOptimisticCRUDWithData has one more piece of state, optimisticData;  *)
(* setBy is a ghost, the execute call that set it last.                    *)
IdleHook ==
    [isPending |-> FALSE, error |-> NoError, optimisticData |-> Null, setBy |-> "none",
     executed |-> 0, last |-> "none",
     runs |-> [e \in Executions |-> IdleExecution]]

Awaiting(e) == optimistic.runs[e].pc = "awaiting"

(* execute(...args) up to the await: setIsPending(true), setError(null) and *)
(* the call of crudFunction                                                 *)
execute(e) ==
    /\ ~Awaiting(e)
    /\ optimistic.executed < MaxExecutes
    /\ LET overlap == \E o \in Executions : Awaiting(o)
       IN optimistic' = [optimistic EXCEPT
              !.isPending = TRUE,
              !.error = NoError,
              !.executed = @ + 1,
              !.last = "execute",
              !.runs = [o \in Executions |->
                          IF o = e
                          THEN [IdleExecution EXCEPT !.pc = "awaiting", !.alone = ~overlap]
                          ELSE IF Awaiting(o) THEN [@[o] EXCEPT !.alone = FALSE]
                          ELSE @[o]]]
    /\ UNCHANGED <<db, projects, nextId, cache, now, config, nodeEnv, calls, started>>

(* crudFunction resolved with result: setIsPending(false), return result *)
Resolved(e, result) ==
    /\ Awaiting(e)
    /\ optimistic' = [optimistic EXCEPT
           !.isPending = FALSE,
           !.last = "resolved",
           !.runs[e] = [@ EXCEPT !.pc = "returned", !.fn = result, !.value = result,
                                 !.seenPending = FALSE, !.seenError = optimistic.error]]
    /\ UNCHANGED <<db, projects, nextId, cache, now, config, nodeEnv, calls, started>>

(* crudFunction threw err: setError(error), setIsPending(false), throw error *)
Rejected(e, err) ==
    /\ Awaiting(e)
    /\ optimistic' = [optimistic EXCEPT
           !.isPending = FALSE,
           !.error = AsError(err),
           !.last = "rejected",
           !.runs[e] = [@ EXCEPT !.pc = "thrown", !.fn = err, !.value = AsError(err),
                                 !.seenPending = FALSE, !.seenError = AsError(err)]]
    /\ UNCHANGED <<db, projects, nextId, cache, now, config, nodeEnv, calls, started>>

(* reset(): setIsPending(false), setError(null) *)
reset ==
    /\ optimistic.last # "reset"
    /\ optimistic' = [optimistic EXCEPT
           !.isPending = FALSE,
           !.error = NoError,
           !.last = "reset",
           !.runs = [o \in Executions |->
                       IF Awaiting(o) THEN [@[o] EXCEPT !.wasReset = TRUE] ELSE @[o]]]
    /\ UNCHANGED <<db, projects, nextId, cache, now, config, nodeEnv, calls, started>>

(* useOptimisticCRUDWithData *)

(* The arguments of execute *)
Args == {"a1", "a2"}

(* options.getOptimisticData(...args) *)
getOptimisticData(arg) == IF arg = "a1" THEN "temp1" ELSE "temp2"

(* execute(...args) up to the await: setIsPending(true), setError(null),    *)
(* setOptimisticData(getOptimisticData(...args)), the call of crudFunction  *)
executeWithData(e, arg) ==
    /\ ~Awaiting(e)
    /\ optimistic.executed < MaxExecutes
    /\ LET overlap == \E o \in Executions : Awaiting(o)
       IN optimistic' = [optimistic EXCEPT
              !.isPending = TRUE,
              !.error = NoError,
              !.optimisticData = getOptimisticData(arg),
              !.setBy = e,
              !.executed = @ + 1,
              !.last = "execute",
              !.runs = [o \in Executions |->
                          IF o = e
                          THEN [IdleExecution EXCEPT !.pc = "awaiting", !.alone = ~overlap]
                          ELSE IF Awaiting(o) THEN [@[o] EXCEPT !.alone = FALSE]
                          ELSE @[o]]]
    /\ UNCHANGED <<db, projects, nextId, cache, now, config, nodeEnv, calls, started>>

(* crudFunction resolved: setIsPending(false), setOptimisticData(null),     *)
(* options.onSuccess(result), return result                                 *)
ResolvedWithData(e, result) ==
    /\ Awaiting(e)
    /\ optimistic' = [optimistic EXCEPT
           !.isPending = FALSE,
           !.optimisticData = Null,
           !.last = "resolved",
           !.runs[e] = [@ EXCEPT !.pc = "returned", !.fn = result, !.value = result,
                                 !.seenPending = FALSE, !.seenError = optimistic.error]]
    /\ UNCHANGED <<db, projects, nextId, cache, now, config, nodeEnv, calls, started>>

(* crudFunction threw: setError(error), setIsPending(false),                *)
(* setOptimisticData(null), options.onError(error), throw error             *)
RejectedWithData(e, err) ==
    /\ Awaiting(e)
    /\ optimistic' = [optimistic EXCEPT
           !.isPending = FALSE,
           !.error = AsError(err),
           !.optimisticData = Null,
           !.last = "rejected",
           !.runs[e] = [@ EXCEPT !.pc = "thrown", !.fn = err, !.value = AsError(err),
                                 !.seenPending = FALSE, !.seenError = AsError(err)]]
    /\ UNCHANGED <<db, projects, nextId, cache, now, config, nodeEnv, calls, started>>

(* reset(): setIsPending(false), setError(null), setOptimisticData(null) *)
resetWithData ==
    /\ optimistic.last # "reset"
    /\ optimistic' = [optimistic EXCEPT
           !.isPending = FALSE,
           !.error = NoError,
           !.optimisticData = Null,
           !.last = "reset",
           !.runs = [o \in Executions |->
                       IF Awaiting(o) THEN [@[o] EXCEPT !.wasReset = TRUE] ELSE @[o]]]
    /\ UNCHANGED <<db, projects, nextId, cache, now, config, nodeEnv, calls, started>>

HookSets == {{}, HookNames}

(* revalidatePaths: the default, one path derived from the table's name *)
DefaultPaths == <<"/contacts">>

Configs ==
    [hasSoftDelete : BOOLEAN, includeArchived : BOOLEAN, useProfileLookup : BOOLEAN,
     revalidatePaths : {DefaultPaths}, hooks : HookSets]

Init ==
    /\ db = <<>>
    /\ projects = <<>>
    /\ nextId = 1
    /\ cache = <<>>
    /\ now = 0
    /\ config \in Configs
    /\ nodeEnv \in {"production", "development"}
    /\ calls = [c \in Calls |-> IdleCall]
    /\ started = 0
    /\ optimistic = IdleHook

(* The create and update calls callers make with arguments drawn from u *)
StartMutation(c, u) ==
    \/ \E user \in u.users, data \in u.creates, key \in u.keys :
          StartCreate(c, user, data, key)
    \/ \E user \in u.users, id \in Ids, data \in u.updates, key \in u.keys :
          StartUpdate(c, user, id, data, key)

AnyInputs ==
    [users |-> Users, creates |-> CreateInputs, updates |-> UpdateInputs,
     keys |-> Keys \cup {NoKey}]

StartOther(c) ==
    \/ \E op \in {"getOne", "delete"}, user \in Users, id \in Ids :
          StartById(c, op, user, id)
    \/ \E op \in {"archive", "unarchive"}, user \in Users, id \in Ids :
          StartArchival(c, op, user, id)
    \/ \E user \in Users, opts \in GetAllInputs : StartGetAll(c, user, opts)

(* A call in flight moves on by one step *)
Continue(c) ==
    \/ Resolve(c)
    \/ Prefetch(c)
    \/ Before(c)
    \/ Write(c)
    \/ After(c)
    \/ Finish(c)
    \/ Return(c)

(* Calls without idempotency key, one at a time *)
Next ==
    \/ started < MaxCalls /\ StartMutation("c1", [AnyInputs EXCEPT !.keys = {NoKey}])
    \/ started < MaxCalls /\ StartOther("c1")
    \/ Continue("c1")
    \/ Query("c1")

Spec == Init /\ [][Next]_vars

----------------------------------------------------------------------------
(* Idempotent create and update: calls with and without key, one at a     *)
(* time, while the clock advances.                                        *)

IdemInputs ==
    [users |-> Users, creates |-> {[name |-> "n1"], [name |-> ""]},
     updates |-> {[name |-> "n2"], [name |-> ""]}, keys |-> Keys \cup {NoKey}]

InitIdem ==
    /\ Init
    /\ config.hasSoftDelete
    /\ ~config.includeArchived
    /\ ~config.useProfileLookup

NextIdem ==
    \/ started < MaxIdemCalls /\ StartMutation("c1", IdemInputs)
    \/ Continue("c1")
    \/ \E d \in {1, CACHE_TTL_MS} : Tick(d)

SpecIdem == InitIdem /\ [][NextIdem]_vars

----------------------------------------------------------------------------
(* Two calls of one tenant in flight at the same time, carrying the same  *)
(* idempotency key.                                                       *)

ConcInputs ==
    [users |-> {"A"}, creates |-> {[name |-> "n1"]}, updates |-> {[name |-> "n2"]},
     keys |-> {"k1"}]

InitConc ==
    /\ Init
    /\ config.hasSoftDelete
    /\ ~config.includeArchived
    /\ ~config.useProfileLookup
    /\ nodeEnv = "production"

NextConc ==
    \E c \in Calls :
        \/ started < MaxConcCalls /\ StartMutation(c, ConcInputs)
        \/ Continue(c)

SpecConc == InitConc /\ [][NextConc]_vars

----------------------------------------------------------------------------
(* The mutations of one tenant, one call at a time, on a factory configured *)
(* with two revalidation paths, with and without hooks and soft delete.     *)

MutConfigs ==
    [hasSoftDelete : BOOLEAN, includeArchived : {FALSE}, useProfileLookup : {FALSE},
     revalidatePaths : {<<"/contacts", "/dashboard">>}, hooks : HookSets]

MutInputs ==
    [users |-> {"A"}, creates |-> {[name |-> "n1"], [name |-> ""]},
     updates |-> {[name |-> "n2"]}, keys |-> {"k1", NoKey}]

InitMut ==
    /\ db = <<>>
    /\ projects = <<>>
    /\ nextId = 1
    /\ cache = <<>>
    /\ now = 0
    /\ config \in MutConfigs
    /\ nodeEnv = "production"
    /\ calls = [c \in Calls |-> IdleCall]
    /\ started = 0
    /\ optimistic = IdleHook

NextMut ==
    \/ started < MaxMutCalls /\ StartMutation("c1", MutInputs)
    \/ started < MaxMutCalls /\ \E id \in Ids : StartById("c1", "delete", "A", id)
    \/ started < MaxMutCalls /\ \E op \in {"archive", "unarchive"}, id \in Ids :
                                    StartArchival("c1", op, "A", id)
    \/ Continue("c1")

SpecMut == InitMut /\ [][NextMut]_vars

----------------------------------------------------------------------------
(* Every operation, one call at a time, with and without key, by a tenant  *)
(* and by an unauthenticated caller, while the clock advances.             *)

CacheInputs ==
    [users |-> {"A", NoUser}, creates |-> {[name |-> "n1"], [name |-> ""]},
     updates |-> {[name |-> "n2"]}, keys |-> {"k1", NoKey}]

InitCache ==
    /\ Init
    /\ config.hasSoftDelete
    /\ ~config.includeArchived
    /\ ~config.useProfileLookup
    /\ nodeEnv = "production"

NextCache ==
    \/ started < MaxCacheCalls /\ StartMutation("c1", CacheInputs)
    \/ started < MaxCacheCalls /\ \E op \in {"getOne", "delete"}, id \in Ids :
                                      StartById("c1", op, "A", id)
    \/ started < MaxCacheCalls /\ \E op \in {"archive", "unarchive"}, id \in Ids :
                                      StartArchival("c1", op, "A", id)
    \/ started < MaxCacheCalls /\ StartGetAll("c1", "A", NoOptions)
    \/ Continue("c1")
    \/ Query("c1")
    \/ \E d \in {1, CACHE_TTL_MS} : Tick(d)

SpecCache == InitCache /\ [][NextCache]_vars

----------------------------------------------------------------------------
(* Two factories in one process, made with the same options for the tables *)
(* 'contacts' and 'projects': creates and updates of one tenant through    *)
(* either, one call at a time, with and without key.                       *)

(* The component: execute calls, which may overlap, the wrapped function's *)
(* settlements and reset, in any order                                     *)
InitHook ==
    /\ Init
    /\ config = [hasSoftDelete |-> TRUE, includeArchived |-> FALSE, useProfileLookup |-> FALSE,
                 revalidatePaths |-> DefaultPaths, hooks |-> {}]
    /\ nodeEnv = "production"

NextHook ==
    \/ \E e \in Executions : execute(e)
    \/ \E e \in Executions, result \in Results : Resolved(e, result)
    \/ \E e \in Executions, err \in Thrown : Rejected(e, err)
    \/ reset

SpecHook == InitHook /\ [][NextHook]_vars

(* Overlapping calls without key on the records of one tenant: a create,   *)
(* updates and deletes in any interleaving of their steps                  *)
MaxRaceCalls == 3    \* calls made in one behaviour of SpecRace

NextRace ==
    \E c \in Calls :
        \/ started < MaxRaceCalls /\ StartCreate(c, "A", [name |-> "n1"], NoKey)
        \/ started < MaxRaceCalls /\ \E id \in Ids, data \in {[name |-> "n2"], [name |-> "n3"]} :
                                        StartUpdate(c, "A", id, data, NoKey)
        \/ started < MaxRaceCalls /\ \E id \in Ids : StartById(c, "delete", "A", id)
        \/ Continue(c)

SpecRace == InitConc /\ [][NextRace]_vars

(* Updates, deletes and archives by both tenants, one call at a time, of   *)
(* factories that register none, some or all of the hooks                  *)
MaxPrefetchCalls == 3    \* calls made in one behaviour of SpecPrefetch

PrefetchConfigs ==
    [hasSoftDelete : BOOLEAN, includeArchived : {FALSE}, useProfileLookup : {FALSE},
     revalidatePaths : {DefaultPaths},
     hooks : {{}, {"afterUpdate"}, {"afterDelete"}, {"beforeUpdate", "beforeDelete"}, HookNames}]

InitPrefetch ==
    /\ db = <<>>
    /\ projects = <<>>
    /\ nextId = 1
    /\ cache = <<>>
    /\ now = 0
    /\ config \in PrefetchConfigs
    /\ nodeEnv = "production"
    /\ calls = [c \in Calls |-> IdleCall]
    /\ started = 0
    /\ optimistic = IdleHook

NextPrefetch ==
    \/ started < MaxPrefetchCalls /\ \E user \in Tenants :
                                         StartCreate("c1", user, [name |-> "n1"], NoKey)
    \/ started < MaxPrefetchCalls /\ \E user \in Tenants, id \in Ids :
                                         StartUpdate("c1", user, id, [name |-> "n2"], NoKey)
    \/ started < MaxPrefetchCalls /\ \E user \in Tenants, id \in Ids :
                                         StartById("c1", "delete", user, id)
    \/ started < MaxPrefetchCalls /\ \E user \in Tenants, id \in Ids :
                                         StartArchival("c1", "archive", user, id)
    \/ Continue("c1")

SpecPrefetch == InitPrefetch /\ [][NextPrefetch]_vars

(* A factory without soft delete: one tenant creates, reads, updates and   *)
(* deletes, one call at a time, with and without idempotency key           *)
MaxGoneCalls == 4    \* calls made in one behaviour of SpecGone

InitGone ==
    /\ Init
    /\ ~config.hasSoftDelete
    /\ ~config.includeArchived
    /\ ~config.useProfileLookup
    /\ nodeEnv = "production"

NextGone ==
    \/ started < MaxGoneCalls /\ \E key \in {"k1", NoKey} :
                                     StartCreate("c1", "A", [name |-> "n1"], key)
    \/ started < MaxGoneCalls /\ \E id \in Ids, key \in {"k1", NoKey} :
                                     StartUpdate("c1", "A", id, [name |-> "n2"], key)
    \/ started < MaxGoneCalls /\ \E op \in {"getOne", "delete"}, id \in Ids :
                                     StartById("c1", op, "A", id)
    \/ started < MaxGoneCalls /\ StartGetAll("c1", "A", NoOptions)
    \/ Continue("c1")
    \/ Query("c1")

SpecGone == InitGone /\ [][NextGone]_vars

(* delete(id) and archive(id) side by side.  Two soft-delete factories     *)
(* with the same configuration work on two collections with the same       *)
(* content; delete is called on the one ('projects', call c1) and archive  *)
(* on the other ('contacts', call c2) by the same caller with the same id, *)
(* and the hooks, the collaborator and revalidatePath answer the two calls *)
(* alike: c1 takes a step, then c2 takes a step that got the same answer.  *)

(* The collections the two calls start from *)
TwinRow(owner) == InsertedRow([name |-> "n1", owner_id |-> owner], 1)

TwinTables ==
    { <<>>,
      <<TwinRow("A")>>,
      <<UpdatedRow(TwinRow("A"), ArchivePayload(0))>>,
      <<TwinRow("B")>> }

(* The steps a call has taken *)
StepsTaken(call) ==
    CASE call.pc = "idle" -> 0
      [] call.pc = "resolve" -> 1
      [] OTHER -> 2 + Cardinality({i \in DOMAIN call.ev : call.ev[i] # "revalidateThrew"})

(* Whether the last step of the call went without a throw: the hook         *)
(* returned, the collaborator reported no error, revalidatePath returned.   *)
Answer(call) ==
    /\ ~(call.pc = "done" /\ call.out # "ok")
    /\ \A i \in DOMAIN call.ev : call.ev[i] # "revalidateThrew"

Step(c) ==
    \/ Resolve(c)
    \/ Prefetch(c)
    \/ Before(c)
    \/ Write(c)
    \/ After(c)
    \/ Finish(c)

InitTwin ==
    /\ db \in TwinTables
    /\ projects = db
    /\ nextId = Len(db) + 1
    /\ cache = <<>>
    /\ now = 1
    /\ config \in [hasSoftDelete : {TRUE}, includeArchived : {FALSE}, useProfileLookup : {FALSE},
                   revalidatePaths : {DefaultPaths}, hooks : HookSets]
    /\ nodeEnv = "production"
    /\ calls = [c \in Calls |-> IdleCall]
    /\ started = 0
    /\ optimistic = IdleHook

NextTwin ==
    \/ \E user \in Tenants, id \in Ids : StartByIdIn("c1", "projects", "delete", user, id)
    \/ /\ calls["c1"].pc # "idle"
       /\ StartArchival("c2", "archive", calls["c1"].user, calls["c1"].id)
    \/ /\ calls["c2"].pc # "idle"
       /\ StepsTaken(calls["c1"]) = StepsTaken(calls["c2"])
       /\ Step("c1")
    \/ /\ StepsTaken(calls["c2"]) < StepsTaken(calls["c1"])
       /\ Step("c2")
       /\ Answer(calls'["c2"]) = Answer(calls["c1"])

SpecTwin == InitTwin /\ [][NextTwin]_vars

(* getAll on collections of up to MaxPageRows rows, with every limit up to *)
(* MaxLimit and every offset up to MaxOffset (0: absent or zero, which the *)
(* code does not tell apart) under three orders                            *)
MaxPageRows == 3     \* rows of a collection in SpecPage
MaxLimit == 3        \* largest limit handed to getAll in SpecPage
MaxOffset == 3       \* largest offset handed to getAll in SpecPage
MaxPageCalls == 1    \* getAll calls made in one behaviour of SpecPage

PageRows(id) ==
    { InsertedRow([name |-> "n1", owner_id |-> "A"], id),
      InsertedRow([name |-> "n2", owner_id |-> "A"], id),
      InsertedRow([name |-> "n1", owner_id |-> "B"], id),
      UpdatedRow(InsertedRow([name |-> "n1", owner_id |-> "A"], id), ArchivePayload(0)) }

PageTables ==
    UNION { {t \in [1 .. n -> UNION {PageRows(i) : i \in 1 .. n}] :
               \A i \in 1 .. n : t[i] \in PageRows(i)} : n \in 0 .. MaxPageRows }

PageInputs ==
    { [NoOptions EXCEPT !.limit = l, !.offset = o, !.sortBy = s[1], !.sortOrder = s[2]] :
         l \in 0 .. MaxLimit, o \in 0 .. MaxOffset,
         s \in {<<"", "">>, <<"id", "asc">>, <<"name", "desc">>} }

InitPage ==
    /\ db \in PageTables
    /\ projects = <<>>
    /\ nextId = Len(db) + 1
    /\ cache = <<>>
    /\ now = 1
    /\ config \in [hasSoftDelete : {TRUE}, includeArchived : BOOLEAN, useProfileLookup : {FALSE},
                   revalidatePaths : {DefaultPaths}, hooks : {{}}]
    /\ nodeEnv = "production"
    /\ calls = [c \in Calls |-> IdleCall]
    /\ started = 0
    /\ optimistic = IdleHook

NextPage ==
    \/ started < MaxPageCalls /\ \E opts \in PageInputs : StartGetAll("c1", "A", opts)
    \/ Resolve("c1")
    \/ Query("c1")
    \/ Return("c1")

SpecPage == InitPage /\ [][NextPage]_vars

(* create and update on inputs with identifier fields, empty and not, and  *)
(* with fields that are not identifier fields, one call at a time          *)
MaxNormCalls == 2    \* calls made in one behaviour of SpecNorm

NormFields(name) ==
    { [name |-> name],
      [name |-> name, company_id |-> ""],
      [name |-> name, company_id |-> "x1"],
      [name |-> name, id |-> ""],
      [name |-> name, valid |-> ""],
      [name |-> name, owner_id |-> ""],
      [name |-> name, owner_id |-> "B"],
      [name |-> name, id |-> "", valid |-> "", company_id |-> ""] }

NormInputs ==
    [users |-> {"A"}, creates |-> NormFields("n1") \cup NormFields(""),
     updates |-> NormFields("n2") \cup NormFields(""), keys |-> {NoKey}]

NextNorm ==
    \/ started < MaxNormCalls /\ StartMutation("c1", NormInputs)
    \/ Continue("c1")

SpecNorm == InitCache /\ [][NextNorm]_vars

(* A component with useOptimisticCRUDWithData and getOptimisticData given: *)
(* execute calls, which may overlap, settlements and reset in any order    *)
NextOptimistic ==
    \/ \E e \in Executions, arg \in Args : executeWithData(e, arg)
    \/ \E e \in Executions, result \in Results : ResolvedWithData(e, result)
    \/ \E e \in Executions, err \in Thrown : RejectedWithData(e, err)
    \/ resetWithData

SpecOptimistic == InitHook /\ [][NextOptimistic]_vars

TableNames == {"contacts", "projects"}

NextFactories ==
    \/ started < MaxFactoryCalls /\ \E tableName \in TableNames, key \in {"k1", NoKey} :
          StartKeyed("c1", tableName, "create", "A", 0, [name |-> "n1"], key)
    \/ started < MaxFactoryCalls /\ \E tableName \in TableNames, id \in Ids, key \in {"k1", NoKey} :
          StartKeyed("c1", tableName, "update", "A", id, [name |-> "n2"], key)
    \/ Continue("c1")

SpecFactories == InitCache /\ [][NextFactories]_vars

----------------------------------------------------------------------------
(* Properties *)

Mutations == {"create", "update"}

(* Call c is made in this step. *)
Made(c) == calls[c].pc = "idle" /\ calls'[c].pc # "idle"

(* Call c returns its result in this step. *)
Returns(c) == calls[c].pc \notin {"idle", "done"} /\ calls'[c].pc = "done" /\ calls'[c].out = "ok"

(* C1: a create or update that returns with a key stores its result under *)
(* the key with the clock's reading, and a create or update made with a   *)
(* key whose entry is at most CACHE_TTL_MS old returns that stored result *)
(* at once and leaves the collection as it was.                           *)
C1_SequentialRetry ==
    [][\A c \in Calls :
          /\ (Returns(c) /\ calls[c].pc = "finish" /\ KeyGiven(calls[c].key))
                => /\ calls[c].key \in DOMAIN cache'
                   /\ cache'[calls[c].key] = [result |-> calls'[c].res[1], timestamp |-> now]
          /\ (/\ Made(c)
              /\ calls'[c].op \in Mutations
              /\ calls'[c].key \in DOMAIN cache
              /\ now - cache[calls'[c].key].timestamp <= CACHE_TTL_MS)
                => /\ calls'[c].pc = "done"
                   /\ calls'[c].out = "ok"
                   /\ calls'[c].res = <<cache[calls'[c].key].result>>
                   /\ db' = db
                   /\ nextId' = nextId]_vars

(* A retry is served from an entry that is exactly CACHE_TTL_MS old. *)
C1_Witness ==
    \E c \in Calls :
        /\ calls[c].pc = "done"
        /\ calls[c].ev = <<"cacheHit">>
        /\ calls[c].key \in DOMAIN cache
        /\ now - cache[calls[c].key].timestamp = CACHE_TTL_MS
        /\ calls[c].res = <<cache[calls[c].key].result>>

----------------------------------------------------------------------------
(* Tenant isolation *)

Has(events, e) == \E i \in DOMAIN events : events[i] = e

(* Call c settles (returns or throws) in this step. *)
Settles(c) == calls[c].pc # "done" /\ calls'[c].pc = "done"

(* C2: the storage statement of update, delete, archive and unarchive made *)
(* by a caller leaves every row whose owner column differs from the        *)
(* caller's resolved identity in the collection with every field as it was. *)
C2_WriteIsolation ==
    [][\A c \in Calls :
          (calls[c].pc = "write" /\ calls[c].op \in {"update", "delete", "archive", "unarchive"})
             => \A i \in DOMAIN db :
                   db[i][OwnerCol] # FinalOwnerId(calls[c].user)
                      => i \in DOMAIN db' /\ db'[i] = db[i]]_vars

(* A delete aimed at another tenant's row has returned and the row is there. *)
C2_Witness ==
    \E c \in Calls :
        /\ calls[c].pc = "done"
        /\ calls[c].op = "delete"
        /\ calls[c].out = "ok"
        /\ Has(calls[c].ev, "delete")
        /\ calls[c].id \in DOMAIN db
        /\ db[calls[c].id][OwnerCol] # calls[c].owner
        /\ db[calls[c].id]["archived_at"] = Null

(* Failures that precede the statement's answer *)
EarlierFailures == {"ValidationError", "HookError", "StorageError"}

(* C3: getOne, update and delete on an id that names no row of the caller  *)
(* (the row belongs to another tenant, or no row ever had the id) fail     *)
(* with NotFound, unless an earlier step of the call failed, and return    *)
(* nothing.                                                                *)
C3_NotFoundOnForeignId ==
    \A c \in Calls :
        (/\ calls[c].pc = "done"
         /\ calls[c].op \in {"getOne", "update", "delete"}
         /\ FinalOwnerId(calls[c].user) # ""
         /\ Matching(db, calls[c].id, FinalOwnerId(calls[c].user)) = {}
         /\ calls[c].id \notin DOMAIN db => calls[c].id >= nextId)
           => /\ calls[c].out \in {"NotFound"} \cup EarlierFailures
              /\ calls[c].res = <<>>

(* C4: every row getAll and getOne return carries the caller's resolved    *)
(* identity in its owner column, whatever the query options.               *)
C4_ReadIsolation ==
    \A c \in Calls :
        (calls[c].pc = "done" /\ calls[c].op \in {"getAll", "getOne"} /\ calls[c].out = "ok")
           => \A i \in DOMAIN calls[c].res :
                 calls[c].res[i][OwnerCol] = FinalOwnerId(calls[c].user)

(* getAll has returned rows while the collection holds another tenant's row. *)
C4_Witness ==
    \E c \in Calls :
        /\ calls[c].pc = "done"
        /\ calls[c].op = "getAll"
        /\ calls[c].out = "ok"
        /\ calls[c].res # <<>>
        /\ \E i \in DOMAIN db :
              /\ db[i][OwnerCol] # calls[c].owner
              /\ \A f \in DOMAIN calls[c].opts.filters : db[i][f] = calls[c].opts.filters[f]

----------------------------------------------------------------------------
(* Idempotency *)

(* The key of the call made in this step has a live entry. *)
Hit(c) ==
    /\ Made(c)
    /\ calls'[c].op \in Mutations
    /\ calls'[c].key \in DOMAIN cache
    /\ now - cache[calls'[c].key].timestamp <= CACHE_TTL_MS

(* The key of the call made in this step has an entry older than the TTL. *)
Expired(c) ==
    /\ Made(c)
    /\ calls'[c].op \in Mutations
    /\ calls'[c].key \in DOMAIN cache
    /\ now - cache[calls'[c].key].timestamp > CACHE_TTL_MS

(* C5: creates carrying the same key that are in flight at the same time   *)
(* return the same record, and at most one of them inserts.  (No time      *)
(* passes in SpecConc: two creates that both returned after their own      *)
(* insert were in flight together.)                                        *)
C5_ConcurrentSameKey ==
    \A c, d \in Calls :
        (/\ c # d
         /\ calls[c].pc = "done" /\ calls[d].pc = "done"
         /\ calls[c].op = "create" /\ calls[d].op = "create"
         /\ calls[c].out = "ok" /\ calls[d].out = "ok"
         /\ KeyGiven(calls[c].key) /\ calls[c].key = calls[d].key)
           => /\ calls[c].res = calls[d].res
              /\ ~(Has(calls[c].ev, "insert") /\ Has(calls[d].ev, "insert"))

(* C6: a create or update made with a key whose entry is older than the    *)
(* TTL is not served from the cache; when it returns it has validated, run *)
(* the registered hooks and executed its storage statement, and the entry  *)
(* under the key holds its fresh result with the clock's reading.          *)
C6_ExpiredReexecutes ==
    [][\A c \in Calls :
          /\ Expired(c)
                => /\ calls'[c].pc = "resolve"
                   /\ calls'[c].ev = <<>>
                   /\ calls'[c].seen = "expired"
          /\ (Returns(c) /\ calls[c].seen = "expired")
                => /\ Has(calls'[c].ev, "parse")
                   /\ Has(calls'[c].ev, IF calls[c].op = "create" THEN "insert" ELSE "update")
                   /\ Registered(BeforeHook(calls[c].op)) => Has(calls'[c].ev, BeforeHook(calls[c].op))
                   /\ Registered(AfterHook(calls[c].op)) => Has(calls'[c].ev, AfterHook(calls[c].op))
                   /\ calls[c].key \in DOMAIN cache'
                   /\ cache'[calls[c].key] = [result |-> calls'[c].res[1], timestamp |-> now]]_vars

(* A repeat call made after the TTL has returned a record of its own, now  *)
(* held under the key.                                                     *)
C6_Witness ==
    \E c \in Calls :
        /\ calls[c].pc = "done"
        /\ calls[c].seen = "expired"
        /\ calls[c].out = "ok"
        /\ Has(calls[c].ev, "insert")
        /\ Has(calls[c].ev, "beforeCreate")
        /\ calls[c].key \in DOMAIN cache
        /\ cache[calls[c].key] = [result |-> calls[c].res[1], timestamp |-> now]
        /\ calls[c].res[1]["id"] = 2

(* C7: a create or update made with a key that has a live entry settles in *)
(* its synchronous prefix with nothing but the lookup done: no validation, *)
(* hook, storage statement or revalidation; the collection is unchanged    *)
(* and the entry keeps its result and its timestamp.                       *)
C7_HitFrame ==
    [][\A c \in Calls :
          Hit(c) => /\ Settles(c)
                    /\ calls'[c].ev = <<"cacheHit">>
                    /\ calls'[c].owner = ""
                    /\ calls'[c].validated = <<>>
                    /\ db' = db
                    /\ nextId' = nextId
                    /\ calls'[c].key \in DOMAIN cache'
                    /\ cache'[calls'[c].key] = cache[calls'[c].key]]_vars

(* A call with hooks registered was served from an entry stored earlier. *)
C7_Witness ==
    \E c \in Calls :
        /\ calls[c].pc = "done"
        /\ calls[c].ev = <<"cacheHit">>
        /\ config.hooks = HookNames
        /\ calls[c].key \in DOMAIN cache
        /\ cache[calls[c].key].timestamp < now
        /\ now < CACHE_TTL_MS

(* C8: a call made while the auth collaborator reports no identity outside *)
(* development mode throws 'Not authenticated' and returns no record,      *)
(* whatever key it carries.                                                *)
C8_Unauthenticated ==
    \A c \in Calls :
        (calls[c].pc = "done" /\ calls[c].user = NoUser /\ nodeEnv # "development")
           => calls[c].out = "NotAuthenticated" /\ calls[c].res = <<>>

(* C9: the record create or update returns to an authenticated caller,    *)
(* served from the cache or not, carries the caller's resolved identity in *)
(* its owner column.                                                       *)
C9_ResultOwnedByCaller ==
    \A c \in Calls :
        (/\ calls[c].pc = "done"
         /\ calls[c].op \in Mutations
         /\ calls[c].out = "ok"
         /\ calls[c].user \in Tenants)
           => calls[c].res[1][OwnerCol] = FinalOwnerId(calls[c].user)

(* C10: the payload create hands to the insert is what the insert schema   *)
(* accepts of the input with the resolved identity under the owner column, *)
(* and the inserted row carries the resolved identity there, whatever the  *)
(* input held under that column.                                           *)
C10_OwnerInjected ==
    [][\A c \in Calls :
          /\ (calls[c].pc = "resolve" /\ calls[c].op = "create" /\ calls'[c].pc \notin {"resolve", "done"})
                => /\ calls'[c].validated[OwnerCol] = FinalOwnerId(calls[c].user)
                   /\ InsertSchemaAccepts(
                         [k \in DOMAIN calls[c].data \cup {OwnerCol} |->
                             IF k = OwnerCol THEN FinalOwnerId(calls[c].user)
                             ELSE Normalize(calls[c].data)[k]])
          /\ (calls[c].pc = "write" /\ calls[c].op = "create" /\ calls'[c].pc # "done")
                => /\ nextId \in DOMAIN db'
                   /\ db'[nextId][OwnerCol] = FinalOwnerId(calls[c].user)]_vars

(* A create whose input named another tenant under the owner column has   *)
(* inserted its row, and the row belongs to the caller.                    *)
C10_Witness ==
    \E c \in Calls :
        /\ calls[c].pc = "finish"
        /\ calls[c].op = "create"
        /\ OwnerCol \in DOMAIN calls[c].data
        /\ calls[c].data[OwnerCol] # FinalOwnerId(calls[c].user)
        /\ calls[c].res[1][OwnerCol] = FinalOwnerId(calls[c].user)
        /\ db[calls[c].res[1]["id"]][OwnerCol] = FinalOwnerId(calls[c].user)

----------------------------------------------------------------------------
(* Record invariants *)

C13_ArchivedExcluded ==
    \A c \in Calls :
        (/\ calls[c].pc = "done"
         /\ calls[c].op = "getAll"
         /\ calls[c].out = "ok"
         /\ ~config.includeArchived)
           => \A i \in DOMAIN calls[c].res : calls[c].res[i]["archived_at"] = Null

(* getAll has returned while the caller owns an archived row that meets    *)
(* the filters, and the row is not in the result.                          *)
C13_Witness ==
    \E c \in Calls :
        /\ calls[c].pc = "done"
        /\ calls[c].op = "getAll"
        /\ calls[c].out = "ok"
        /\ ~config.includeArchived
        /\ \E i \in DOMAIN db :
              /\ db[i][OwnerCol] = calls[c].owner
              /\ db[i]["archived_at"] # Null
              /\ \A f \in DOMAIN calls[c].opts.filters : db[i][f] = calls[c].opts.filters[f]
              /\ \A j \in DOMAIN calls[c].res : calls[c].res[j]["id"] # i

(* C14: archive of an active row of the caller changes archived_at and     *)
(* status and nothing else, and unarchive of a row of the caller leaves it *)
(* with status 'active', archived_at null and every other field as it was: *)
(* archive followed by unarchive gives the pre-archive row back.           *)
C14_ArchiveRoundTrip ==
    \A c \in Calls :
        (calls[c].pc = "done" /\ calls[c].out = "ok" /\ calls[c].matched # <<>>)
           => /\ (/\ calls[c].op = "archive"
                  /\ calls[c].matched[1]["status"] = "active"
                  /\ calls[c].matched[1]["archived_at"] = Null)
                    => /\ calls[c].id \in DOMAIN db
                       /\ db[calls[c].id]["status"] = "archived"
                       /\ db[calls[c].id]["archived_at"] # Null
                       /\ \A k \in Columns \ {"status", "archived_at"} :
                             db[calls[c].id][k] = calls[c].matched[1][k]
              /\ calls[c].op = "unarchive"
                    => /\ calls[c].id \in DOMAIN db
                       /\ db[calls[c].id]["status"] = "active"
                       /\ db[calls[c].id]["archived_at"] = Null
                       /\ \A k \in Columns \ {"status", "archived_at"} :
                             db[calls[c].id][k] = calls[c].matched[1][k]

(* unarchive has returned on a row that archive had archived. *)
C14_Witness ==
    \E c \in Calls :
        /\ calls[c].pc = "done"
        /\ calls[c].op = "unarchive"
        /\ calls[c].out = "ok"
        /\ calls[c].matched # <<>>
        /\ calls[c].matched[1]["status"] = "archived"
        /\ calls[c].matched[1]["archived_at"] # Null
        /\ db[calls[c].id] = [calls[c].matched[1] EXCEPT !["status"] = "active",
                                                         !["archived_at"] = Null]

----------------------------------------------------------------------------
(* Failures *)

(* C15: a create or update of an authenticated caller whose input has an   *)
(* empty name throws the schema's error out of its parse, and a call that  *)
(* throws a validation error has done nothing but parse: no hook, no       *)
(* storage statement, no revalidation, and the collection and the cache    *)
(* are as they were.                                                       *)
C15_ValidationFailure ==
    [][\A c \in Calls :
          /\ (/\ calls[c].pc = "resolve"
              /\ calls'[c] # calls[c]
              /\ calls[c].op \in Mutations
              /\ FinalOwnerId(calls[c].user) # ""
              /\ "name" \in DOMAIN calls[c].data
              /\ calls[c].data["name"] = "")
                => /\ calls'[c].pc = "done"
                   /\ calls'[c].out = "ValidationError"
          /\ (Settles(c) /\ calls'[c].out = "ValidationError")
                => /\ calls'[c].ev = <<"parse">>
                   /\ calls'[c].res = <<>>
                   /\ db' = db
                   /\ nextId' = nextId
                   /\ cache' = cache]_vars

(* update(id, {name: ""}) with a key and hooks registered has thrown the   *)
(* validation error on a stored row of the caller; the key has no entry.   *)
C15_Witness ==
    \E c \in Calls :
        /\ calls[c].pc = "done"
        /\ calls[c].op = "update"
        /\ calls[c].out = "ValidationError"
        /\ calls[c].ev = <<"parse">>
        /\ config.hooks = HookNames
        /\ KeyGiven(calls[c].key)
        /\ calls[c].key \notin DOMAIN cache
        /\ calls[c].id \in DOMAIN db
        /\ db[calls[c].id][OwnerCol] = calls[c].owner
        /\ db[calls[c].id]["name"] = "n1"

(* C16: on a factory without soft delete, archive and unarchive throw the  *)
(* 'does not support soft delete' error.                                   *)
C16_UnsupportedArchival ==
    \A c \in Calls :
        (/\ calls[c].pc = "done"
         /\ calls[c].op \in {"archive", "unarchive"}
         /\ ~config.hasSoftDelete)
           => /\ calls[c].out = "UnsupportedOperation"
              /\ calls[c].ev = <<>>

(* The events of the storage statements that mutate *)
WriteEvents == {"insert", "update", "delete"}

(* C17: a call that ends in its before hook ends with the hook's error; it *)
(* leaves the collection and the cache as they were and has executed no    *)
(* mutating statement and no after optimistic.  A registered before hook runs    *)
(* ahead of the call's mutating statement.                                 *)
C17_BeforeHookFailure ==
    [][\A c \in Calls :
          /\ (Settles(c) /\ calls[c].pc = "before")
                => /\ calls'[c].out = "HookError"
                   /\ calls'[c].res = <<>>
                   /\ db' = db
                   /\ nextId' = nextId
                   /\ cache' = cache
                   /\ \A i \in DOMAIN calls'[c].ev :
                         /\ calls'[c].ev[i] \notin WriteEvents
                         /\ calls'[c].ev[i] # AfterHook(calls[c].op)
          /\ Registered(BeforeHook(calls'[c].op))
                => \A i \in DOMAIN calls'[c].ev :
                      calls'[c].ev[i] \in WriteEvents
                         => \E j \in 1 .. (i - 1) : calls'[c].ev[j] = BeforeHook(calls'[c].op)]_vars

(* delete has ended in beforeDelete's error and the caller's row is there, *)
(* active.                                                                 *)
C17_Witness ==
    \E c \in Calls :
        /\ calls[c].pc = "done"
        /\ calls[c].op = "delete"
        /\ calls[c].out = "HookError"
        /\ calls[c].ev = <<"select", "beforeDelete">>
        /\ calls[c].id \in DOMAIN db
        /\ db[calls[c].id][OwnerCol] = calls[c].owner
        /\ db[calls[c].id]["status"] = "active"
        /\ db[calls[c].id]["archived_at"] = Null

(* C18: a call that ends in its after hook ends with the hook's error, and *)
(* the step leaves the collection as the call's statement made it: the     *)
(* inserted row is stored, the updated row holds the validated values, the *)
(* deleted row is archived or gone.                                        *)
C18_AfterHookFailure ==
    [][\A c \in Calls :
          (Settles(c) /\ calls[c].pc = "after")
             => /\ calls'[c].out = "HookError"
                /\ db' = db
                /\ calls[c].op = "create"
                      => /\ calls[c].res[1]["id"] \in DOMAIN db'
                         /\ db'[calls[c].res[1]["id"]] = calls[c].res[1]
                /\ calls[c].op = "update"
                      => /\ calls[c].id \in DOMAIN db'
                         /\ \A k \in DOMAIN calls[c].validated :
                               db'[calls[c].id][k] = calls[c].validated[k]
                /\ (calls[c].op \in {"delete", "archive"} /\ config.hasSoftDelete)
                      => /\ calls[c].id \in DOMAIN db'
                         /\ db'[calls[c].id]["status"] = "archived"
                         /\ db'[calls[c].id]["archived_at"] # Null
                /\ (calls[c].op \in {"delete", "archive"} /\ ~config.hasSoftDelete)
                      => calls[c].id \notin DOMAIN db']_vars

(* update has ended in afterUpdate's error and the row holds the new name. *)
C18_Witness ==
    \E c \in Calls :
        /\ calls[c].pc = "done"
        /\ calls[c].op = "update"
        /\ calls[c].out = "HookError"
        /\ Has(calls[c].ev, "afterUpdate")
        /\ calls[c].matched # <<>>
        /\ calls[c].matched[1]["name"] = "n1"
        /\ db[calls[c].id]["name"] = "n2"

(* C19: a create, update, delete, archive or unarchive that returns after  *)
(* its statement has had revalidatePath called on every configured path,   *)
(* and with a key its result is stored under the key.                      *)
C19_RevalidatesEveryPath ==
    \A c \in Calls :
        (/\ calls[c].pc = "done"
         /\ calls[c].out = "ok"
         /\ calls[c].op \in Mutations \cup {"delete", "archive", "unarchive"}
         /\ calls[c].ev # <<"cacheHit">>)
           => /\ \A i \in DOMAIN config.revalidatePaths :
                    Has(calls[c].ev, config.revalidatePaths[i])
              /\ (calls[c].op \in Mutations /\ KeyGiven(calls[c].key))
                    => /\ calls[c].key \in DOMAIN cache
                       /\ cache[calls[c].key].result = calls[c].res[1]

(* C20: the lookup of a call made with a key leaves in the cache exactly   *)
(* the entries of age at most CACHE_TTL_MS, each as it was, and serves the *)
(* call only from an entry of age at most CACHE_TTL_MS.                    *)
C20_LookupEvicts ==
    [][\A c \in Calls :
          (Made(c) /\ calls'[c].op \in Mutations /\ KeyGiven(calls'[c].key))
             => /\ DOMAIN cache' = {k \in DOMAIN cache : now - cache[k].timestamp <= CACHE_TTL_MS}
                /\ \A k \in DOMAIN cache' :
                      /\ cache'[k] = cache[k]
                      /\ now - cache'[k].timestamp <= CACHE_TTL_MS
                /\ calls'[c].ev = <<"cacheHit">>
                      => /\ calls'[c].key \in DOMAIN cache
                         /\ now - cache[calls'[c].key].timestamp <= CACHE_TTL_MS
                         /\ calls'[c].res = <<cache[calls'[c].key].result>>]_vars

(* A call made with a key whose entry was older than the TTL has done its  *)
(* lookup: the entry is gone and the call goes on to resolve its context.  *)
C20_Witness ==
    \E c \in Calls :
        /\ calls[c].pc = "resolve"
        /\ calls[c].seen = "expired"
        /\ calls[c].key \notin DOMAIN cache
        /\ now > CACHE_TTL_MS
        /\ db # <<>>

----------------------------------------------------------------------------
(* Writers of the idempotency cache *)

(* Call c has settled without being a create or update that returned with  *)
(* a key.                                                                  *)
NoWriter(call) ==
    /\ call.pc = "done"
    /\ (call.out # "ok" \/ call.op \notin Mutations \/ call.key = NoKey)

(* C21 as stated: a call that fails, a call without key and a call of      *)
(* getAll, getOne, delete, archive or unarchive leaves the cache as it was *)
(* when the call was made.                                                 *)
C21_FailedCallLeavesCache ==
    \A c \in Calls : NoWriter(calls[c]) => cache = calls[c].cache0

(* C21, amended: an entry is added or replaced only by the return of a     *)
(* create or update that was given a key; a call that fails, a call        *)
(* without key and a call of another operation adds and changes no entry;  *)
(* only a call made with a key removes entries (its lookup evicts).        *)
C21_CacheWrittenOnlyBy ==
    [][/\ \A k \in DOMAIN cache' :
             (k \notin DOMAIN cache \/ cache'[k] # cache[k])
                => \E c \in Calls :
                      /\ calls[c].pc = "finish"
                      /\ calls[c].op \in Mutations
                      /\ calls[c].key = k
                      /\ k # NoKey
                      /\ Returns(c)
       /\ \A c \in Calls :
             NoWriter(calls'[c])
                => /\ \A k \in DOMAIN cache' :
                         k \in DOMAIN calls'[c].cache0 /\ cache'[k] = calls'[c].cache0[k]
                   /\ (calls'[c].op \notin Mutations \/ calls'[c].key = NoKey)
                         => cache' = calls'[c].cache0]_vars

(* A create made with a key whose entry had expired has inserted its row   *)
(* and ended in afterCreate's error: the key has no entry.                 *)
C21_Witness ==
    \E c \in Calls :
        /\ calls[c].pc = "done"
        /\ calls[c].op = "create"
        /\ calls[c].out = "HookError"
        /\ Has(calls[c].ev, "insert")
        /\ Has(calls[c].ev, "afterCreate")
        /\ calls[c].seen = "expired"
        /\ calls[c].key \in DOMAIN calls[c].cache0
        /\ cache = <<>>

(* C22: a create or update served from the cache returns a row of the      *)
(* table its own factory was made for: what a call of one factory stored   *)
(* under a key is not handed out by a call of another factory.  (Ids are   *)
(* unique across the tables and, with soft delete, a row never leaves its  *)
(* table.)                                                                 *)
C22_CacheScopedToFactory ==
    \A c \in Calls :
        (calls[c].pc = "done" /\ calls[c].out = "ok" /\ calls[c].ev = <<"cacheHit">>)
           => calls[c].res[1]["id"] \in DOMAIN From(calls[c].table)

(* C23 as stated: while an execute call that no other execute call overlaps *)
(* awaits the wrapped function, isPending is true.                          *)
C23_PendingWhileAwaiting ==
    \A e \in Executions :
        (Awaiting(e) /\ optimistic.runs[e].alone) => optimistic.isPending

(* C23: for an execute call that no other execute call overlaps: while it  *)
(* awaits the wrapped function and reset has not been called since it      *)
(* started, isPending is true; on success it returns the function's result *)
(* with isPending false and error null; on failure it throws the thrown    *)
(* error, or a generic Error in place of a value that is not an Error,     *)
(* with error holding that error and isPending false; and after reset      *)
(* isPending is false and error is null.                                   *)
C23_ExecuteContract ==
    /\ \A e \in Executions :
          LET run == optimistic.runs[e] IN
          run.alone =>
             /\ (run.pc = "awaiting" /\ ~run.wasReset) => optimistic.isPending
             /\ run.pc = "returned" =>
                   /\ run.value = run.fn
                   /\ ~run.seenPending
                   /\ run.seenError = NoError
             /\ run.pc = "thrown" =>
                   /\ run.value = (IF run.fn.isError THEN run.fn
                                   ELSE [isError |-> TRUE, message |-> "An unknown error occurred"])
                   /\ run.seenError = run.value
                   /\ ~run.seenPending
    /\ optimistic.last = "reset" => (~optimistic.isPending /\ optimistic.error = NoError)

(* An execute call alone in flight threw a generic Error in place of a     *)
(* value that is not an Error, another returned a result after an earlier  *)
(* failure, and reset was called afterwards.                               *)
C23_Witness ==
    /\ optimistic.last = "reset"
    /\ \E e \in Executions :
          /\ optimistic.runs[e].pc = "thrown" /\ optimistic.runs[e].alone
          /\ ~optimistic.runs[e].fn.isError
    /\ \E e \in Executions :
          /\ optimistic.runs[e].pc = "returned" /\ optimistic.runs[e].alone

(* The place of an event in the order of a mutation's steps *)
Rank(event) ==
    CASE event = "parse" -> 0
      [] event = "select" -> 1
      [] event \in {"beforeCreate", "beforeUpdate", "beforeDelete"} -> 2
      [] event \in {"insert", "update", "delete"} -> 3
      [] event \in {"afterCreate", "afterUpdate", "afterDelete"} -> 4
      [] event = "cacheSet" -> 6
      [] OTHER -> 5

Ordered(ev) == \A i, j \in DOMAIN ev : i < j => Rank(ev[i]) <= Rank(ev[j])

(* C24: a create or update that missed the cache takes its steps in the    *)
(* order before hook, storage statement, after hook, revalidation, cache   *)
(* write, return: the events of the call are in that order at every        *)
(* moment, a call that has returned a record has taken every step its      *)
(* configuration and key call for, and until the call has passed its after *)
(* hook no entry exists under its key.                                     *)
C24_StepOrder ==
    \A c \in Calls :
        LET call == calls[c] IN
        (call.op \in {"create", "update"} /\ call.ev # <<"cacheHit">>) =>
           /\ Ordered(call.ev)
           /\ (call.pc = "done" /\ call.out = "ok") =>
                 /\ Registered(BeforeHook(call.op)) => Has(call.ev, BeforeHook(call.op))
                 /\ Has(call.ev, IF call.op = "create" THEN "insert" ELSE "update")
                 /\ Registered(AfterHook(call.op)) => Has(call.ev, AfterHook(call.op))
                 /\ Has(call.ev, config.revalidatePaths[1])
                 /\ KeyGiven(call.key) =>
                       /\ call.ev[Len(call.ev)] = "cacheSet"
                       /\ call.key \in DOMAIN cache
           /\ (KeyGiven(call.key) /\ call.pc \in {"resolve", "prefetch", "before", "write", "after"})
                 => call.key \notin DOMAIN cache

(* An update with a key and every hook registered has returned its record  *)
(* after the pre-mutation select, both hooks, both revalidations and the   *)
(* cache write.                                                            *)
C24_Witness ==
    \E c \in Calls :
        /\ calls[c].pc = "done" /\ calls[c].out = "ok"
        /\ calls[c].op = "update"
        /\ calls[c].ev = <<"parse", "select", "beforeUpdate", "update", "afterUpdate",
                           "/contacts", "/dashboard", "cacheSet">>

(* C25: a call whose before hook raised has issued no statement against    *)
(* the collection, select included.                                        *)
C25_BeforeHookPrecedesStorage ==
    \A c \in Calls :
        LET call == calls[c] IN
        (/\ call.pc = "done" /\ call.out = "HookError"
         /\ call.ev[Len(call.ev)] = BeforeHook(call.op))
           => \A i \in DOMAIN call.ev :
                 call.ev[i] \notin {"select", "insert", "update", "delete"}

(* C26: with beforeRead registered, a read that has issued its select,     *)
(* getAll or getOne, has invoked beforeRead first.                         *)
C26_BeforeReadOnEveryRead ==
    \A c \in Calls :
        LET call == calls[c] IN
        (/\ call.op \in {"getAll", "getOne"}
         /\ Registered("beforeRead")
         /\ Has(call.ev, "select"))
           => call.ev[1] = "beforeRead"

StatementEvents == {"insert", "update", "delete"}

(* C27: an after hook is invoked only after the storage statement of the   *)
(* same call, and a call whose statement the collaborator answered with an *)
(* error ends with that error at once: the statement is its last event, so *)
(* no after hook, no revalidation and no cache write follow, and no entry  *)
(* is stored under its key.                                                *)
C27_StorageErrorEndsCall ==
    \A c \in Calls :
        LET call == calls[c] IN
        call.op \in {"create", "update", "delete", "archive", "unarchive"} =>
           /\ \A j \in DOMAIN call.ev :
                 call.ev[j] = AfterHook(call.op)
                    => \E i \in 1 .. j - 1 : call.ev[i] \in StatementEvents
           /\ (call.pc = "done" /\ call.out \in {"StorageError", "NotFound"}) =>
                 /\ call.ev[Len(call.ev)] \in StatementEvents
                 /\ call.res = <<>>
                 /\ ~Has(call.ev, AfterHook(call.op))
                 /\ \A p \in DOMAIN config.revalidatePaths :
                       ~Has(call.ev, config.revalidatePaths[p])
                 /\ ~Has(call.ev, "cacheSet")
                 /\ KeyGiven(call.key) => call.key \notin DOMAIN cache

(* A create made with a key, with afterCreate registered, ended with the   *)
(* collaborator's error right after its insert.                            *)
C27_Witness ==
    \E c \in Calls :
        /\ calls[c].pc = "done" /\ calls[c].out = "StorageError"
        /\ calls[c].op = "create" /\ KeyGiven(calls[c].key)
        /\ Registered("afterCreate")
        /\ calls[c].ev = <<"parse", "beforeCreate", "insert">>

(* C28: the previousData an update hands to afterUpdate differs from the   *)
(* record as it was right before the update's own statement only when      *)
(* another call executed a statement on the record between the update's    *)
(* pre-mutation select and its statement; C28_Witness is such an           *)
(* interleaving.                                                           *)
C28_StaleOnlyWhenOvertaken ==
    \A c \in Calls :
        (/\ calls[c].pc = "after" /\ calls[c].op = "update"
         /\ calls[c].prev # calls[c].matched)
           => calls[c].raced

(* An update is about to hand afterUpdate a previousData that is a row and *)
(* is not the row its own statement matched.                               *)
C28_Witness ==
    \E c \in Calls :
        /\ calls[c].pc = "after" /\ calls[c].op = "update"
        /\ calls[c].prev # <<>> /\ calls[c].matched # <<>>
        /\ calls[c].prev # calls[c].matched

(* C29: a delete or archive invokes afterDelete only if its pre-mutation   *)
(* select found a row with the given id owned by the caller, and hands it  *)
(* that row, which is the row its statement then matched; a delete or      *)
(* archive whose statement matched no row has not invoked afterDelete.     *)
C29_AfterDeleteNeedsRow ==
    \A c \in Calls :
        LET call == calls[c] IN
        call.op \in {"delete", "archive"} =>
           /\ call.pc = "after" =>
                 /\ call.prev # <<>>
                 /\ call.prev[1]["id"] = call.id
                 /\ call.prev[1][OwnerCol] = call.owner
                 /\ call.prev = call.matched
           /\ Has(call.ev, "afterDelete") => call.matched # <<>>

(* With afterDelete registered, a delete of a row that exists and belongs  *)
(* to another tenant has returned without invoking afterDelete.            *)
C29_Witness ==
    \E c \in Calls :
        /\ calls[c].pc = "done" /\ calls[c].out = "ok"
        /\ calls[c].op = "delete"
        /\ Registered("afterDelete")
        /\ calls[c].id \in DOMAIN db
        /\ db[calls[c].id][OwnerCol] # calls[c].owner
        /\ ~Has(calls[c].ev, "afterDelete")

(* C30: an update, delete or archive issues the pre-mutation select only   *)
(* when its own after hook is registered; when it is, the call has         *)
(* selected before its before hook and its statement, and previousData is  *)
(* the row with the given id if that row exists and belongs to the caller, *)
(* and null otherwise.                                                     *)
C30_PrefetchOnlyForAfterHook ==
    \A c \in Calls :
        LET call == calls[c] IN
        call.op \in {"update", "delete", "archive"} =>
           /\ Has(call.ev, "select") => Registered(AfterHook(call.op))
           /\ (Registered(AfterHook(call.op)) /\ call.pc \in {"before", "write"}) =>
                 /\ Has(call.ev, "select")
                 /\ call.prev = (IF /\ call.id \in DOMAIN db
                                    /\ db[call.id][OwnerCol] = call.owner
                                 THEN <<db[call.id]>> ELSE <<>>)
           /\ (~Registered(AfterHook(call.op)) /\ call.pc \in {"before", "write", "finish", "done"})
                 => (~Has(call.ev, "select") /\ call.prev = <<>>)

(* With afterUpdate as the only hook, an update of a row of another tenant *)
(* has selected, found nothing and is at its statement with previousData   *)
(* null.                                                                   *)
C30_Witness ==
    \E c \in Calls :
        /\ calls[c].pc = "write" /\ calls[c].op = "update"
        /\ config.hooks = {"afterUpdate"}
        /\ calls[c].id \in DOMAIN db
        /\ db[calls[c].id][OwnerCol] # calls[c].owner
        /\ calls[c].ev = <<"parse", "select">>
        /\ calls[c].prev = <<>>

----------------------------------------------------------------------------
(* The record's state machine *)

(* Call c executes its statement in this step and the collaborator reports *)
(* no error.                                                               *)
Executes(c) == calls[c].pc = "write" /\ calls'[c].pc \in {"after", "finish"}

Gone == {i \in 1 .. nextId - 1 : i \notin DOMAIN db}

----------------------------------------------------------------------------
(* archive and delete *)

(* C33: on a soft-delete factory, whenever delete(id) and archive(id),     *)
(* called from the same state by the same caller and answered alike, have  *)
(* taken the same number of steps, they are at the same place with the     *)
(* same events so far (pre-mutation select, beforeDelete, statement,       *)
(* afterDelete, revalidation), the same pre-fetched record, the same       *)
(* outcome, and their collections hold the same records.                   *)
C33_ArchiveIsDelete ==
    LET d == calls["c1"]
        a == calls["c2"]
    IN  (d.op = "delete" /\ a.op = "archive" /\ StepsTaken(d) = StepsTaken(a)) =>
           /\ a.pc = d.pc
           /\ a.ev = d.ev
           /\ a.out = d.out
           /\ a.owner = d.owner
           /\ a.prev = d.prev
           /\ a.matched = d.matched
           /\ a.res = d.res
           /\ db = projects

(* delete and archive have both returned after the pre-mutation select,    *)
(* beforeDelete, the soft-delete statement on the caller's active row,     *)
(* afterDelete and the revalidation, and both rows are archived.           *)
C33_Witness ==
    /\ calls["c1"].op = "delete" /\ calls["c2"].op = "archive"
    /\ calls["c1"].pc = "done" /\ calls["c2"].pc = "done"
    /\ calls["c2"].out = "ok"
    /\ calls["c2"].ev = <<"select", "beforeDelete", "update", "afterDelete", "/contacts">>
    /\ calls["c2"].matched # <<>>
    /\ calls["c2"].matched[1]["status"] = "active"
    /\ db[calls["c2"].id]["status"] = "archived"
    /\ projects[calls["c1"].id]["status"] = "archived"

(* C34: unarchive invokes none of the hooks and issues no select, whatever *)
(* is registered; its statement sets archived_at to null and status to     *)
(* 'active' on the row with the given id owned by the caller and leaves    *)
(* every other field and every other row as it was; an unarchive that      *)
(* returns has revalidated after its statement, and one whose statement    *)
(* the collaborator answered with an error has not.                        *)
C34_UnarchiveFrame ==
    [][\A c \in Calls :
          calls'[c].op = "unarchive" =>
             /\ \A i \in DOMAIN calls'[c].ev : calls'[c].ev[i] \notin HookNames \cup {"select"}
             /\ (calls[c].pc = "write" /\ calls'[c].pc # "write") =>
                   /\ DOMAIN db' = DOMAIN db
                   /\ \A i \in DOMAIN db :
                         db'[i] = IF /\ calls'[c].pc = "finish"
                                     /\ i = calls[c].id
                                     /\ db[i][OwnerCol] = calls[c].owner
                                  THEN [db[i] EXCEPT !["archived_at"] = Null,
                                                     !["status"] = "active"]
                                  ELSE db[i]
             /\ (calls'[c].pc = "done" /\ calls'[c].out = "ok") =>
                   /\ calls'[c].ev[1] = "update"
                   /\ calls'[c].ev[2] = config.revalidatePaths[1]
             /\ (calls'[c].pc = "done" /\ calls'[c].out = "StorageError") =>
                   calls'[c].ev = <<"update">>]_vars

(* With every hook registered, unarchive has returned on an archived row   *)
(* of the caller after its statement and the revalidation, nothing else.   *)
C34_Witness ==
    \E c \in Calls :
        /\ config.hooks = HookNames
        /\ calls[c].pc = "done" /\ calls[c].out = "ok" /\ calls[c].op = "unarchive"
        /\ calls[c].matched # <<>>
        /\ calls[c].matched[1]["status"] = "archived"
        /\ calls[c].ev = <<"update", "/contacts">>
        /\ db[calls[c].id]["archived_at"] = Null

----------------------------------------------------------------------------
(* Pagination *)

(* The owner-scoped, filtered, sorted result of the call, not paginated *)
Unpaged(call) ==
    QueryAll(From(call.table), call.owner, [call.opts EXCEPT !.limit = 0, !.offset = 0])

(* C35: a getAll given a limit L >= 1 and an offset O >= 0 (O = 0 or no     *)
(* offset: the first L) returns exactly the records at the positions        *)
(* O .. O+L-1 of the owner-scoped, filtered, sorted result, as many of      *)
(* them as exist; a getAll given no limit returns the whole result,         *)
(* whatever the offset.                                                     *)
C35_Pagination ==
    \A c \in Calls :
        LET call == calls[c]
            base == Unpaged(call)
            L == call.opts.limit
            O == call.opts.offset
            rest == IF Len(base) > O THEN Len(base) - O ELSE 0
        IN  (call.pc = "done" /\ call.op = "getAll" /\ call.out = "ok") =>
               /\ L >= 1 =>
                     /\ Len(call.res) = (IF rest < L THEN rest ELSE L)
                     /\ \A k \in 1 .. Len(call.res) : call.res[k] = base[O + k]
               /\ L = 0 => call.res = base

(* A getAll with limit 1 and offset 1 over three rows of the caller has    *)
(* returned the second one alone.                                          *)
C35_Witness ==
    \E c \in Calls :
        /\ calls[c].pc = "done" /\ calls[c].op = "getAll" /\ calls[c].out = "ok"
        /\ calls[c].opts.limit = 1 /\ calls[c].opts.offset = 1
        /\ calls[c].opts.sortBy = "id"
        /\ Len(Unpaged(calls[c])) = 3
        /\ Len(calls[c].res) = 1
        /\ calls[c].res[1]["id"] = 2

----------------------------------------------------------------------------
(* Input normalization *)

(* The fields of the inputs that are named id or end in _id *)
IdFields == {"id", "company_id", "owner_id"}

(* C36 as stated: the object create and update hand to the schema has, for *)
(* every field of the input, null where the field is named id or ends in   *)
(* _id and the input has the empty string, and the input's value otherwise. *)
C36_EveryFieldAsNormalized ==
    [][\A c \in Calls :
          (/\ calls[c].pc = "resolve" /\ calls'[c].pc # "resolve"
           /\ calls[c].op \in {"create", "update"}
           /\ calls'[c].out # "NotAuthenticated") =>
             LET input == calls[c].data
                 handed == SchemaInput(calls[c].op, input, FinalOwnerId(calls[c].user))
             IN  \A k \in DOMAIN input :
                    handed[k] = IF k \in IdFields /\ input[k] = "" THEN Null ELSE input[k]]_vars

(* C36: when create or update goes on from its context to the schema, the *)
(* object handed to the schema has the fields of the input; every field    *)
(* named id or ending in _id whose value is the empty string is null in    *)
(* it, every other field and every other value is as in the input (the     *)
(* owner column of create holds the caller's identity, whatever the input  *)
(* had there); the call is rejected or goes on with the parsed object as   *)
(* the schema decides on that object; and the caller's input is as it was. *)
C36_Normalization ==
    [][\A c \in Calls :
          (/\ calls[c].pc = "resolve" /\ calls'[c].pc # "resolve"
           /\ calls[c].op \in {"create", "update"}
           /\ calls'[c].out # "NotAuthenticated") =>
             LET input == calls[c].data
                 op == calls[c].op
                 handed == SchemaInput(op, input, FinalOwnerId(calls[c].user))
                 injected == IF op = "create" THEN {OwnerCol} ELSE {}
             IN  /\ DOMAIN handed = DOMAIN input \cup injected
                 /\ \A k \in DOMAIN input \ injected :
                       handed[k] = IF k \in IdFields /\ input[k] = "" THEN Null ELSE input[k]
                 /\ \A k \in injected : handed[k] = FinalOwnerId(calls[c].user)
                 /\ IF calls'[c].pc = "done"
                    THEN /\ calls'[c].out = "ValidationError"
                         /\ ~(IF op = "create" THEN InsertSchemaAccepts(handed)
                              ELSE UpdateSchemaAccepts(handed))
                    ELSE /\ calls'[c].validated = (IF op = "create" THEN InsertSchemaParse(handed)
                                                   ELSE UpdateSchemaParse(handed))
                         /\ calls'[c].data = input]_vars

(* An update whose input has an empty id, an empty company_id and an empty *)
(* field that is not an identifier field has passed the schema, with its   *)
(* input as the caller gave it.                                            *)
C36_Witness ==
    \E c \in Calls :
        /\ calls[c].op = "update" /\ calls[c].pc = "write"
        /\ calls[c].data = [name |-> "n2", id |-> "", valid |-> "", company_id |-> ""]
        /\ SchemaInput("update", calls[c].data, calls[c].owner)
              = [name |-> "n2", id |-> Null, valid |-> "", company_id |-> Null]
        /\ calls[c].validated = [name |-> "n2"]

----------------------------------------------------------------------------
(* Overlapping execute calls *)

(* An execute call is in flight and reset has not been called since it     *)
(* started.                                                                *)
InFlight(e) == Awaiting(e) /\ ~optimistic.runs[e].wasReset

(* C37: whenever an execute call is in flight, isPending is true;          *)
(* optimisticData is non-null only while the call that set it is in        *)
(* flight, and it stays non-null as long as that call is, also when        *)
(* another call completes.                                                 *)
C37_OverlappingCalls ==
    /\ (\E e \in Executions : InFlight(e)) => optimistic.isPending
    /\ optimistic.optimisticData # Null =>
          (optimistic.setBy \in Executions /\ Awaiting(optimistic.setBy))
    /\ \A e \in Executions :
          (optimistic.setBy = e /\ InFlight(e)) => optimistic.optimisticData # Null

====
